---- MODULE Spec2Model ----
(***************************************************************************)
(* Device resolution engine of DeviceGuess: the POST /log/:id handler of   *)
(* the server (fingerprint tables, reference matcher, tier cascade, eSIM   *)
(* verdict), modelled as a state machine.                                  *)
(*                                                                         *)
(* Representation.  A JavaScript string is a sequence of one-character     *)
(* strings, so that toLowerCase, trim, includes and the regular            *)
(* expressions are computed character by character.  null / undefined is   *)
(* Null, the empty sequence; a present number, boolean or object v is the  *)
(* one-element sequence <<v>>.  The handler tests its string inputs only   *)
(* for truthiness, so an absent string and the empty string are the same   *)
(* value here.  A pixel ratio is held in tenths (30 is 3.0, 26 is 2.6).    *)
(***************************************************************************)
EXTENDS Integers, Sequences, FiniteSets, TLC

Null == << >>

Some(v) == <<v>>

Val(o) == o[1]

\* JavaScript truthiness of a nullable number: null, undefined and 0 are falsy.
TruthyNum(o) == o # Null /\ Val(o) # 0

\* JavaScript truthiness of a string: null, undefined and "" are falsy.
TruthyStr(s) == s # Null

----------------------------------------------------------------------------
\* Characters and strings

UpperChars == <<"A", "B", "C", "D", "E", "F", "G", "H", "I", "J", "K", "L", "M", "N", "O", "P", "Q", "R", "S", "T", "U", "V", "W", "X", "Y", "Z">>

LowerChars == <<"a", "b", "c", "d", "e", "f", "g", "h", "i", "j", "k", "l", "m", "n", "o", "p", "q", "r", "s", "t", "u", "v", "w", "x", "y", "z">>

Digits == <<"0", "1", "2", "3", "4", "5", "6", "7", "8", "9">>

\* The white space of trim() and of \s among the characters a string of the
\* model holds: space, tab, line feed, vertical tab (U+000B, written as the
\* character itself), form feed and carriage return.  JavaScript takes
\* U+00A0, U+FEFF, U+2028, U+2029 and the space separators of Unicode as
\* well; a string of the model holds ASCII only.
WhiteSpace == {" ", "\t", "\n", "", "\f", "\r"}

UpperSet == {UpperChars[i] : i \in 1..26}

DigitSet == {Digits[i] : i \in 1..10}

ToLowerMap == [c \in UpperSet |-> LowerChars[CHOOSE i \in 1..26 : UpperChars[i] = c]]

DigitMap == [c \in DigitSet |-> (CHOOSE i \in 1..10 : Digits[i] = c) - 1]

DigitVal(c) == DigitMap[c]

LowerChar(c) == IF c \in UpperSet THEN ToLowerMap[c] ELSE c

toLowerCase(s) == [i \in 1..Len(s) |-> LowerChar(s[i])]

\* Length of the longest run of characters of s, from index i on, that are
\* all in the class C (member = TRUE) or all outside it (member = FALSE).
RECURSIVE RunLen(_, _, _, _)
RunLen(s, i, C, member) ==
  IF i < 1 \/ i > Len(s) \/ (s[i] \in C) # member THEN 0
  ELSE 1 + RunLen(s, i + 1, C, member)

spaceRun(s, i) == RunLen(s, i, WhiteSpace, TRUE)

digitRun(s, i) == RunLen(s, i, DigitSet, TRUE)

CharAt(s, k) == IF k >= 1 /\ k <= Len(s) THEN s[k] ELSE ""

trimStart(s) == SubSeq(s, 1 + spaceRun(s, 1), Len(s))

Reverse(s) == [i \in 1..Len(s) |-> s[Len(s) + 1 - i]]

trim(s) == Reverse(trimStart(Reverse(trimStart(s))))

\* sub occurs in s starting at index i
OccursAt(s, i, sub) ==
  /\ i >= 1
  /\ i + Len(sub) - 1 <= Len(s)
  /\ SubSeq(s, i, i + Len(sub) - 1) = sub

includes(s, sub) == \E i \in 1..(Len(s) + 1) : OccursAt(s, i, sub)

\* parseInt of a non-empty run of decimal digits
RECURSIVE parseInt(_)
parseInt(ds) ==
  IF ds = << >> THEN 0
  ELSE parseInt(SubSeq(ds, 1, Len(ds) - 1)) * 10 + DigitVal(ds[Len(ds)])

\* Decimal rendering of a natural number, as template literals do.
RECURSIVE numToString(_)
numToString(n) ==
  IF n < 10 THEN <<Digits[n + 1]>>
  ELSE numToString(n \div 10) \o <<Digits[(n % 10) + 1]>>

\* Array.prototype.join
RECURSIVE join(_, _)
join(parts, sep) ==
  IF parts = << >> THEN << >>
  ELSE IF Len(parts) = 1 THEN parts[1]
  ELSE parts[1] \o sep \o join(Tail(parts), sep)

\* String.prototype.split(/\s+/): the maximal runs of non-space characters;
\* a leading or trailing separator yields an empty first or last piece.
\* splitFrom(s, n) splits s whose first piece has n characters.
RECURSIVE splitWs(_)
splitFrom(s, n) ==
  IF n = Len(s) THEN <<s>>
  ELSE <<SubSeq(s, 1, n)>> \o splitWs(SubSeq(s, n + spaceRun(s, n + 1) + 1, Len(s)))

splitWs(s) == splitFrom(s, RunLen(s, 1, WhiteSpace, FALSE))

\* a || b on nullable objects
orElse(a, b) == IF a # Null THEN a ELSE b

\* The non-null entries of a sequence of nullable values, unwrapped.
nonNull(results) == SelectSeq(results, LAMBDA result : result # Null)

unwrapAll(found) == [i \in 1..Len(found) |-> Val(found[i])]

\* The first entry of a sequence, or null
headOrNull(xs) == IF xs = << >> THEN Null ELSE Some(xs[1])

----------------------------------------------------------------------------
\* Fixed tables

\* TOP_ESIM_DEVICES, in insertion order (the order Object.entries yields)
TOP_ESIM_DEVICES == <<
  [deviceName |-> <<"i", "P", "h", "o", "n", "e", " ", "1", "2">>, euicc |-> TRUE],
  [deviceName |-> <<"i", "P", "h", "o", "n", "e", " ", "1", "3">>, euicc |-> TRUE],
  [deviceName |-> <<"i", "P", "h", "o", "n", "e", " ", "1", "4">>, euicc |-> TRUE],
  [deviceName |-> <<"i", "P", "h", "o", "n", "e", " ", "1", "5">>, euicc |-> TRUE],
  [deviceName |-> <<"i", "P", "h", "o", "n", "e", " ", "1", "6">>, euicc |-> TRUE],
  [deviceName |-> <<"i", "P", "h", "o", "n", "e", " ", "X", "S">>, euicc |-> TRUE],
  [deviceName |-> <<"i", "P", "h", "o", "n", "e", " ", "X", "R">>, euicc |-> TRUE],
  [deviceName |-> <<"i", "P", "h", "o", "n", "e", " ", "1", "1">>, euicc |-> TRUE],
  [deviceName |-> <<"M", "o", "t", "o", "r", "o", "l", "a", " ", "E", "d", "g", "e", " ", "5", "0">>, euicc |-> TRUE],
  [deviceName |-> <<"M", "o", "t", "o", " ", "G", "8", "4">>, euicc |-> TRUE],
  [deviceName |-> <<"G", "o", "o", "g", "l", "e", " ", "P", "i", "x", "e", "l", " ", "7">>, euicc |-> TRUE],
  [deviceName |-> <<"G", "o", "o", "g", "l", "e", " ", "P", "i", "x", "e", "l", " ", "7", "a">>, euicc |-> TRUE],
  [deviceName |-> <<"G", "o", "o", "g", "l", "e", " ", "P", "i", "x", "e", "l", " ", "8">>, euicc |-> TRUE],
  [deviceName |-> <<"S", "a", "m", "s", "u", "n", "g", " ", "G", "a", "l", "a", "x", "y", " ", "S", "2", "3">>, euicc |-> TRUE],
  [deviceName |-> <<"S", "a", "m", "s", "u", "n", "g", " ", "G", "a", "l", "a", "x", "y", " ", "S", "2", "4">>, euicc |-> TRUE],
  [deviceName |-> <<"S", "a", "m", "s", "u", "n", "g", " ", "G", "a", "l", "a", "x", "y", " ", "S", "2", "5">>, euicc |-> TRUE],
  [deviceName |-> <<"O", "n", "e", "P", "l", "u", "s", " ", "1", "1">>, euicc |-> TRUE],
  [deviceName |-> <<"O", "n", "e", "P", "l", "u", "s", " ", "1", "2">>, euicc |-> TRUE]>>

androidFingerprints == <<
  [gpu |-> <<"a", "d", "r", "e", "n", "o", " ", "(", "t", "m", ")", " ", "7", "1", "0">>,
   width |-> 432, height |-> 984,
   displayName |-> <<"M", "o", "t", "o", "r", "o", "l", "a", " ", "E", "d", "g", "e", " ", "5", "0", " ", "/", " ", "M", "o", "t", "o", " ", "G", "8", "4", " ", "S", "e", "r", "i", "e", "s">>,
   models |-> <<<<"M", "o", "t", "o", "r", "o", "l", "a", " ", "E", "d", "g", "e", " ", "5", "0">>,
               <<"M", "o", "t", "o", " ", "G", "8", "4">>,
               <<"M", "o", "t", "o", " ", "G", "8", "4", " ", "5", "G">>>>],
  [gpu |-> <<"m", "a", "l", "i", "-", "g", "7", "1", "0">>,
   width |-> 412, height |-> 915,
   displayName |-> <<"G", "o", "o", "g", "l", "e", " ", "P", "i", "x", "e", "l", " ", "7", " ", "/", " ", "7", "a", " ", "S", "e", "r", "i", "e", "s">>,
   models |-> <<<<"G", "o", "o", "g", "l", "e", " ", "P", "i", "x", "e", "l", " ", "7">>,
               <<"G", "o", "o", "g", "l", "e", " ", "P", "i", "x", "e", "l", " ", "7", "a">>,
               <<"G", "o", "o", "g", "l", "e", " ", "P", "i", "x", "e", "l", " ", "7", " ", "P", "r", "o">>>>],
  [gpu |-> <<"a", "d", "r", "e", "n", "o", " ", "(", "t", "m", ")", " ", "7", "4", "0">>,
   width |-> 360, height |-> 780,
   displayName |-> <<"S", "a", "m", "s", "u", "n", "g", " ", "G", "a", "l", "a", "x", "y", " ", "S", "2", "3", " ", "/", " ", "S", "2", "4", " ", "S", "e", "r", "i", "e", "s">>,
   models |-> <<<<"S", "a", "m", "s", "u", "n", "g", " ", "G", "a", "l", "a", "x", "y", " ", "S", "2", "3">>,
               <<"S", "a", "m", "s", "u", "n", "g", " ", "G", "a", "l", "a", "x", "y", " ", "S", "2", "4">>,
               <<"S", "a", "m", "s", "u", "n", "g", " ", "G", "a", "l", "a", "x", "y", " ", "S", "2", "3", " ", "U", "l", "t", "r", "a">>>>],
  [gpu |-> <<"a", "d", "r", "e", "n", "o", " ", "(", "t", "m", ")", " ", "7", "4", "0">>,
   width |-> 412, height |-> 915,
   displayName |-> <<"O", "n", "e", "P", "l", "u", "s", " ", "1", "1", " ", "/", " ", "1", "2", " ", "S", "e", "r", "i", "e", "s">>,
   models |-> <<<<"O", "n", "e", "P", "l", "u", "s", " ", "1", "1">>,
               <<"O", "n", "e", "P", "l", "u", "s", " ", "1", "2">>,
               <<"O", "n", "e", "P", "l", "u", "s", " ", "1", "1", " ", "P", "r", "o">>>>]>>

iphoneMap == <<
  [width |-> 390, height |-> 844, ratio |-> 3,
   models |-> <<<<"i", "P", "h", "o", "n", "e", " ", "1", "2">>,
               <<"i", "P", "h", "o", "n", "e", " ", "1", "3">>,
               <<"i", "P", "h", "o", "n", "e", " ", "1", "3", " ", "P", "r", "o">>,
               <<"i", "P", "h", "o", "n", "e", " ", "1", "4">>>>],
  [width |-> 428, height |-> 926, ratio |-> 3,
   models |-> <<<<"i", "P", "h", "o", "n", "e", " ", "1", "2", " ", "P", "r", "o", " ", "M", "a", "x">>,
               <<"i", "P", "h", "o", "n", "e", " ", "1", "3", " ", "P", "r", "o", " ", "M", "a", "x">>,
               <<"i", "P", "h", "o", "n", "e", " ", "1", "4", " ", "P", "l", "u", "s">>>>],
  [width |-> 393, height |-> 852, ratio |-> 3,
   models |-> <<<<"i", "P", "h", "o", "n", "e", " ", "1", "4", " ", "P", "r", "o">>,
               <<"i", "P", "h", "o", "n", "e", " ", "1", "5">>,
               <<"i", "P", "h", "o", "n", "e", " ", "1", "5", " ", "P", "r", "o">>,
               <<"i", "P", "h", "o", "n", "e", " ", "1", "6">>>>],
  [width |-> 430, height |-> 932, ratio |-> 3,
   models |-> <<<<"i", "P", "h", "o", "n", "e", " ", "1", "4", " ", "P", "r", "o", " ", "M", "a", "x">>,
               <<"i", "P", "h", "o", "n", "e", " ", "1", "5", " ", "P", "l", "u", "s">>,
               <<"i", "P", "h", "o", "n", "e", " ", "1", "5", " ", "P", "r", "o", " ", "M", "a", "x">>,
               <<"i", "P", "h", "o", "n", "e", " ", "1", "6", " ", "P", "l", "u", "s">>>>],
  [width |-> 375, height |-> 812, ratio |-> 3,
   models |-> <<<<"i", "P", "h", "o", "n", "e", " ", "X">>,
               <<"i", "P", "h", "o", "n", "e", " ", "X", "S">>,
               <<"i", "P", "h", "o", "n", "e", " ", "1", "1", " ", "P", "r", "o">>>>],
  [width |-> 414, height |-> 896, ratio |-> 3,
   models |-> <<<<"i", "P", "h", "o", "n", "e", " ", "X", "R">>,
               <<"i", "P", "h", "o", "n", "e", " ", "1", "1">>,
               <<"i", "P", "h", "o", "n", "e", " ", "X", "S", " ", "M", "a", "x">>,
               <<"i", "P", "h", "o", "n", "e", " ", "1", "1", " ", "P", "r", "o", " ", "M", "a", "x">>>>]>>

\* String literals of the code
Lit == [
   iphone |-> <<"i", "p", "h", "o", "n", "e">>,
   apple |-> <<"a", "p", "p", "l", "e">>,
   xs |-> <<"x", "s">>,
   xr |-> <<"x", "r">>,
   iphone_x |-> <<"i", "p", "h", "o", "n", "e", " ", "x">>,
   K |-> <<"K">>,
   iPhoneSp |-> <<"i", "P", "h", "o", "n", "e", " ">>,
   Series |-> <<" ", "S", "e", "r", "i", "e", "s">>,
   Slash |-> <<" ", "/", " ">>,
   Amp |-> <<" ", "&", " ">>,
   Space |-> <<" ">>,
   Pro |-> <<"P", "r", "o">>,
   Max |-> <<"M", "a", "x">>,
   Plus |-> <<"P", "l", "u", "s">>,
   Mini |-> <<"M", "i", "n", "i">>,
   iPhone |-> <<"i", "P", "h", "o", "n", "e">>]

----------------------------------------------------------------------------
\* Static fallback list

fallbackRecord(entry) ==
  [standardised_full_name |-> entry.deviceName,
   euicc |-> IF entry.euicc THEN "true" ELSE "false"]

\* Entries of TOP_ESIM_DEVICES equal to the normalized term
fallbackExact(normalized) ==
  SelectSeq(TOP_ESIM_DEVICES, LAMBDA e : normalized = toLowerCase(e.deviceName))

\* Entries of which the normalized term is a part, or which are a part of it
fallbackPartial(normalized) ==
  SelectSeq(TOP_ESIM_DEVICES,
            LAMBDA e : \/ includes(normalized, toLowerCase(e.deviceName))
                       \/ includes(toLowerCase(e.deviceName), normalized))

fallbackFirst(entries) ==
  IF entries = << >> THEN Null ELSE Some(fallbackRecord(entries[1]))

\* A variant of the static search that has the exact pass only
fallbackExactOnly(searchTerm) ==
  IF ~TruthyStr(searchTerm) THEN Null
  ELSE fallbackFirst(fallbackExact(trim(toLowerCase(searchTerm))))

\* searchGSMADeviceFallback: exact pass over the whole list, then a partial
\* pass, each in list order.
searchGSMADeviceFallback(searchTerm) ==
  IF ~TruthyStr(searchTerm) THEN Null
  ELSE orElse(fallbackFirst(fallbackExact(trim(toLowerCase(searchTerm)))),
              fallbackFirst(fallbackPartial(trim(toLowerCase(searchTerm)))))

----------------------------------------------------------------------------
\* Apple refinement

\* A variant of the refinement that settles on the first candidate
refineToFirst(gpuRenderer, hardwareConcurrency, possibleModels) ==
  IF ~TruthyStr(gpuRenderer) \/ Len(possibleModels) <= 1 THEN Null
  ELSE possibleModels[1]

\* refineiPhoneModel: both return statements return null.
refineiPhoneModel(gpuRenderer, hardwareConcurrency, possibleModels) ==
  IF ~TruthyStr(gpuRenderer) \/ Len(possibleModels) <= 1 THEN Null
  ELSE Null

----------------------------------------------------------------------------
\* Android GPU resolver

\* A variant with a tolerance of one pixel
within1(a, b) == a - b <= 1 /\ b - a <= 1

\* Math.abs(a - b) <= 2 on numbers
within2(a, b) == a - b <= 2 /\ b - a <= 2

\* One table entry against the normalized renderer and the screen size.
\* With no height, Math.abs(undefined - h) is NaN and NaN <= 2 is false
\* (null - h is -h, out of tolerance for every entry).
androidEntryMatches(fingerprint, normalizedGPU, screenWidth, screenHeight) ==
  /\ includes(normalizedGPU, toLowerCase(fingerprint.gpu))
  /\ within2(Val(screenWidth), fingerprint.width)
  /\ \/ fingerprint.height = 0
     \/ screenHeight # Null /\ within2(Val(screenHeight), fingerprint.height)

androidResult(entries) ==
  IF entries = << >> THEN Null
  ELSE Some([displayName |-> entries[1].displayName,
             models |-> entries[1].models,
             isUnique |-> Len(entries[1].models) = 1])

\* The first table entry that matches decides.
identifyAndroidByGPU(gpuRenderer, screenWidth, screenHeight) ==
  IF ~TruthyStr(gpuRenderer) \/ ~TruthyNum(screenWidth) THEN Null
  ELSE androidResult(
         SelectSeq(androidFingerprints,
                   LAMBDA fingerprint :
                     androidEntryMatches(fingerprint, toLowerCase(trim(gpuRenderer)),
                                         screenWidth, screenHeight)))

----------------------------------------------------------------------------
\* Regular expressions of the Apple resolver and of the eSIM rule.
\* In each of them \s* is followed by a token that cannot start with a
\* white-space character, so the only way to match is with the maximal run
\* of white space: the matchers skip that run and never backtrack.  A match
\* is attempted at each occurrence of "iPhone", leftmost first.

\* Start indices of the occurrences of word in s, ascending
Starts(s, word) == SelectSeq([i \in 1..Len(s) |-> i], LAMBDA i : OccursAt(s, i, word))

\* The alternatives (?:XS|XR|X\s*S|X\s*R|(\d+)) tried in order at index p of
\* s (case-folded: ls), the match having started at index i; q is the index
\* after "X" and white space, n the length of the digit run at p.
esimAlternatives(s, ls, i, p, q, n) ==
  IF CharAt(ls, p) = "x" /\ CharAt(ls, p + 1) = "s"
    THEN Some([m0 |-> SubSeq(s, i, p + 1), m1 |-> Null])
  ELSE IF CharAt(ls, p) = "x" /\ CharAt(ls, p + 1) = "r"
    THEN Some([m0 |-> SubSeq(s, i, p + 1), m1 |-> Null])
  ELSE IF CharAt(ls, p) = "x" /\ CharAt(ls, q) = "s"
    THEN Some([m0 |-> SubSeq(s, i, q), m1 |-> Null])
  ELSE IF CharAt(ls, p) = "x" /\ CharAt(ls, q) = "r"
    THEN Some([m0 |-> SubSeq(s, i, q), m1 |-> Null])
  ELSE IF n > 0
    THEN Some([m0 |-> SubSeq(s, i, p + n - 1), m1 |-> SubSeq(s, p, p + n - 1)])
  ELSE Null

esimRegexFrom(s, ls, i, p) ==
  esimAlternatives(s, ls, i, p, p + 1 + spaceRun(s, p + 1), digitRun(s, p))

\* /iPhone\s*(?:XS|XR|X\s*S|X\s*R|(\d+))/i attempted at index i: Null, or
\* the matched text m0 and the digit group m1 (Null when the alternative
\* taken is not the digit one).
esimRegexAt(s, ls, i) == esimRegexFrom(s, ls, i, i + 6 + spaceRun(s, i + 6))

esimRegexOn(s, ls) ==
  headOrNull(unwrapAll(nonNull([k \in 1..Len(Starts(ls, Lit.iphone)) |->
                                  esimRegexAt(s, ls, Starts(ls, Lit.iphone)[k])])))

\* model.match(...): Null or Some of the match
esimRegexMatch(s) == esimRegexOn(s, toLowerCase(s))

numRegexDigits(s, p) ==
  IF digitRun(s, p) > 0 THEN Some(SubSeq(s, p, p + digitRun(s, p) - 1)) ELSE Null

\* /iPhone\s*(\d+)/ (case-sensitive) attempted at index i: Null or the digits.
numRegexAt(s, i) == numRegexDigits(s, i + 6 + spaceRun(s, i + 6))

\* m.match(/iPhone\s*(\d+)/): Null or Some of group 1
numRegexMatch(s) ==
  headOrNull(unwrapAll(nonNull([k \in 1..Len(Starts(s, Lit.iPhone)) |->
                                  numRegexAt(s, Starts(s, Lit.iPhone)[k])])))

VariantWords == <<Lit.Pro, Lit.Max, Lit.Plus, Lit.Mini>>

\* (Pro|Max|Plus|Mini)? at index v: the text of the first alternative that
\* occurs there, or Null (the group is undefined)
variantGroup(s, v, words) ==
  IF words = << >> THEN Null ELSE SubSeq(s, v, v + Len(words[1]) - 1)

variantAt(s, ls, v) ==
  variantGroup(s, v,
               SelectSeq(VariantWords, LAMBDA w : OccursAt(ls, v, toLowerCase(w))))

variantRegexFrom(s, ls, n) == IF n = 0 THEN Null ELSE Some(variantAt(s, ls, n + spaceRun(s, n)))

\* n is the index after the digit run at p, 0 without a digit
variantRegexDigits(s, ls, p) ==
  variantRegexFrom(s, ls, IF digitRun(s, p) = 0 THEN 0 ELSE p + digitRun(s, p))

\* /iPhone\s*\d+\s*(Pro|Max|Plus|Mini)?/i attempted at index i: Null when
\* the expression does not match; otherwise Some(group 1).
variantRegexAt(s, ls, i) == variantRegexDigits(s, ls, i + 6 + spaceRun(s, i + 6))

variantRegexOn(s, ls) ==
  headOrNull(unwrapAll(nonNull([k \in 1..Len(Starts(ls, Lit.iphone)) |->
                                  variantRegexAt(s, ls, Starts(ls, Lit.iphone)[k])])))

\* m.match(...): Null or Some(group 1)
variantRegexMatch(s) == variantRegexOn(s, toLowerCase(s))

----------------------------------------------------------------------------
\* Apple resolution resolver

\* A variant that truncates: Math.floor of a ratio held in tenths
MathFloor(pixelRatio10) == pixelRatio10 \div 10

\* A variant that rounds up: Math.ceil of a ratio held in tenths
MathCeil(pixelRatio10) == (pixelRatio10 + 9) \div 10

\* Math.round of a ratio held in tenths: floor(x + 0.5)
MathRound(pixelRatio10) == (pixelRatio10 + 5) \div 10

\* [...new Set(xs)]: first occurrences, in order
RECURSIVE uniqueInOrder(_)
appendNew(init, x) ==
  IF \E i \in 1..Len(init) : init[i] = x THEN init ELSE Append(init, x)

uniqueInOrder(xs) ==
  IF xs = << >> THEN << >>
  ELSE appendNew(uniqueInOrder(SubSeq(xs, 1, Len(xs) - 1)), xs[Len(xs)])

\* Array.prototype.sort((a, b) => a - b)
RECURSIVE sortAsc(_)
insertAsc(sorted, x) ==
  SelectSeq(sorted, LAMBDA y : y <= x) \o <<x>> \o SelectSeq(sorted, LAMBDA y : y > x)

sortAsc(xs) ==
  IF xs = << >> THEN << >>
  ELSE insertAsc(sortAsc(SubSeq(xs, 1, Len(xs) - 1)), xs[Len(xs)])

\* modelInfo entries: number is null without a numeric generation; variant
\* is null (no match) or undefined (group absent), both dropped by filter(v => v)
infoNumber(numMatch) == IF numMatch = Null THEN Null ELSE Some(parseInt(Val(numMatch)))

infoVariant(variantMatch) == IF variantMatch = Null THEN Null ELSE Val(variantMatch)

modelNumbers(possibleModels) ==
  sortAsc(unwrapAll(nonNull([i \in 1..Len(possibleModels) |->
                               infoNumber(numRegexMatch(possibleModels[i]))])))

modelVariants(possibleModels) ==
  uniqueInOrder(SelectSeq([i \in 1..Len(possibleModels) |->
                             infoVariant(variantRegexMatch(possibleModels[i]))],
                          LAMBDA v : v # Null))

seriesLabel(minNum, maxNum, variants) ==
  IF minNum = maxNum THEN
    IF Len(variants) > 0
    THEN Lit.iPhoneSp \o numToString(minNum) \o Lit.Space \o join(variants, Lit.Amp) \o Lit.Series
    ELSE Lit.iPhoneSp \o numToString(minNum) \o Lit.Series
  ELSE
    IF Len(variants) > 0
    THEN Lit.iPhoneSp \o numToString(minNum) \o Lit.Slash \o numToString(maxNum)
           \o Lit.Space \o join(variants, Lit.Amp) \o Lit.Series
    ELSE Lit.iPhoneSp \o numToString(minNum) \o Lit.Slash \o numToString(maxNum) \o Lit.Series

seriesName(numbers, variants, possibleModels) ==
  IF Len(numbers) > 0 THEN seriesLabel(numbers[1], numbers[Len(numbers)], variants)
  ELSE join(possibleModels, Lit.Slash) \o Lit.Series

\* The label of a bucket that is neither refined nor unique.
seriesDisplayName(possibleModels) ==
  seriesName(modelNumbers(possibleModels), modelVariants(possibleModels), possibleModels)

iphoneResult(possibleModels, refinedModel) ==
  Some([models |-> possibleModels,
        isUnique |-> Len(possibleModels) = 1 \/ refinedModel # Null,
        displayName |->
          IF refinedModel # Null THEN refinedModel
          ELSE IF Len(possibleModels) = 1 THEN possibleModels[1]
          ELSE seriesDisplayName(possibleModels),
        refinedModel |-> refinedModel])

iphoneEntry(possibleModels, gpuRenderer, hardwareConcurrency) ==
  iphoneResult(possibleModels,
               IF Len(possibleModels) # 1
                  /\ (TruthyStr(gpuRenderer) \/ TruthyNum(hardwareConcurrency))
               THEN refineiPhoneModel(gpuRenderer, hardwareConcurrency, possibleModels)
               ELSE Null)

iphoneFirst(entries, gpuRenderer, hardwareConcurrency) ==
  IF entries = << >> THEN Null
  ELSE iphoneEntry(entries[1].models, gpuRenderer, hardwareConcurrency)

\* The first table entry equal to (width, height, rounded ratio) decides.
identifyiPhoneModel(screenWidth, screenHeight, pixelRatio, gpuRenderer, hardwareConcurrency) ==
  IF ~TruthyNum(screenWidth) \/ ~TruthyNum(screenHeight) \/ ~TruthyNum(pixelRatio) THEN Null
  ELSE iphoneFirst(
         SelectSeq(iphoneMap,
                   LAMBDA entry : /\ Val(screenWidth) = entry.width
                                  /\ Val(screenHeight) = entry.height
                                  /\ MathRound(Val(pixelRatio)) = entry.ratio),
         gpuRenderer, hardwareConcurrency)

----------------------------------------------------------------------------
\* Rule-based eSIM check

\* The tests on match[0], case-folded: TRUE when "return false" is reached.
\* XS / XR continue; "iphone x" without them returns false; a number
\* continues whatever its value.
esimMatchRejects(m0) ==
  IF includes(m0, Lit.xs) \/ includes(m0, Lit.xr) THEN FALSE
  ELSE includes(m0, Lit.iphone_x) /\ ~includes(m0, Lit.xs) /\ ~includes(m0, Lit.xr)

esimAfterMatch(match) ==
  IF match = Null THEN FALSE ELSE esimMatchRejects(toLowerCase(Val(match).m0))

\* One iteration of the loop of isiPhoneESIMCompatible: TRUE when the
\* iteration executes "return false", FALSE when it goes on to the next model.
esimRuleRejects(model) ==
  IF ~TruthyStr(model) \/ ~includes(toLowerCase(model), Lit.iphone) THEN FALSE
  ELSE esimAfterMatch(esimRegexMatch(model))

\* isiPhoneESIMCompatible on an array of model names (a single name is the
\* one-element array): false at the first rejected model, true after the loop.
RECURSIVE isiPhoneESIMCompatible(_)
isiPhoneESIMCompatible(models) ==
  IF models = << >> THEN TRUE
  ELSE IF esimRuleRejects(Head(models)) THEN FALSE
  ELSE isiPhoneESIMCompatible(Tail(models))

----------------------------------------------------------------------------
\* Reference matcher (utils/gsmaDatabase).  The devices table is the
\* sequence of its rows in rowid order; a query with LIMIT 1 and no ORDER BY
\* is answered by the first row the table scan meets.

\* SQL LIKE of a name against a pattern: % is any run, _ is any character,
\* letters compare case-insensitively.
RECURSIVE like(_, _)
like(s, p) ==
  IF p = << >> THEN s = << >>
  ELSE IF Head(p) = "%" THEN \E k \in 0..Len(s) : like(SubSeq(s, k + 1, Len(s)), Tail(p))
  ELSE /\ s # << >>
       /\ Head(p) = "_" \/ LowerChar(Head(s)) = LowerChar(Head(p))
       /\ like(Tail(s), Tail(p))

\* LOWER(name) LIKE LOWER('%term%').  Without a wildcard in the term this is
\* containment of the case-folded term in the case-folded name.
likeContains(name, term) ==
  IF \E i \in 1..Len(term) : term[i] \in {"%", "_"}
  THEN like(toLowerCase(name), <<"%">> \o toLowerCase(term) \o <<"%">>)
  ELSE includes(toLowerCase(name), toLowerCase(term))

\* Rows of the table that satisfy the WHERE clause, in scan order.
selectExact(rows, term) ==
  SelectSeq(rows, LAMBDA r : toLowerCase(r.standardised_full_name) = toLowerCase(term))

selectLike(rows, term) ==
  SelectSeq(rows, LAMBDA r : likeContains(r.standardised_full_name, term))

\* LIMIT n
limit(rows, n) == SubSeq(rows, 1, IF Len(rows) < n THEN Len(rows) ELSE n)

\* stmt.get: the first row or undefined
get(rows) == IF rows = << >> THEN Null ELSE Some(rows[1])

\* Faults of the store during one call: none; "open", new Database raises;
\* "store", every statement on the opened handle raises (a locked or corrupt
\* file, an import in progress).
Faults == {"none", "open", "store"}

\* How an evaluation ends: with a value, or by raising.
Return(v) == [raised |-> FALSE, value |-> v]

Throw == [raised |-> TRUE, value |-> Null]

\* A variant of the catch block that lets the error through
rethrow(completion, fallback) == completion

\* try { ... } catch (error) { return fallback }
catchWith(completion, fallback) ==
  IF completion.raised THEN Return(fallback) ELSE completion

\* db.prepare(...).get(...) / .all(...) on the opened handle
statement(fault, rows) == IF fault = "store" THEN Throw ELSE Return(rows)

\* initDatabase: false when the file is missing, when opening or a statement
\* raises (its own catch block returns false), or when the table is empty;
\* the handle is assigned as soon as the file has been opened.
initDatabase(file, rows, fault) == file = "present" /\ fault = "none" /\ Len(rows) > 0

dbAfterInit(handle, file, fault) ==
  IF file = "present" /\ fault # "open" THEN "open" ELSE handle

\* The guard at the top of every matcher function: with no handle,
\* initDatabase must succeed for the function to go on.
dbReady(handle, file, rows, fault) == handle = "open" \/ initDatabase(file, rows, fault)

\* getStats: totalDevices is the number of rows, and 0 when the guard fails
\* or the count raises.
getStats(handle, file, rows, fault) ==
  IF ~dbReady(handle, file, rows, fault) THEN Return(0)
  ELSE catchWith(IF statement(fault, rows).raised THEN Throw ELSE Return(Len(rows)), 0)

\* closeDatabase: the handle is closed and unset; without one nothing is done.
closeDatabase(handle) == "closed"

\* The token stage of searchDevice: the first token, in term order, whose
\* LIKE query has a row.
probeWords(rows, words) ==
  headOrNull(unwrapAll(nonNull([k \in 1..Len(words) |->
                                  get(limit(selectLike(rows, words[k]), 1))])))

\* A variant that asks the substring query before the exact one
searchSubstringFirst(rows, cleanTerm) ==
  orElse(get(limit(selectLike(rows, cleanTerm), 1)), get(limit(selectExact(rows, cleanTerm), 1)))

\* A variant whose token stage probes every token, whatever its length
searchEveryToken(rows, cleanTerm) ==
  orElse(get(limit(selectExact(rows, cleanTerm), 1)),
         orElse(get(limit(selectLike(rows, cleanTerm), 1)),
                IF Len(cleanTerm) > 3 THEN probeWords(rows, splitWs(cleanTerm)) ELSE Null))

\* The three stages on the trimmed term: exact, substring, tokens.
searchStages(rows, cleanTerm) ==
  orElse(get(limit(selectExact(rows, cleanTerm), 1)),
         orElse(get(limit(selectLike(rows, cleanTerm), 1)),
                IF Len(cleanTerm) > 3
                THEN probeWords(rows, SelectSeq(splitWs(cleanTerm), LAMBDA w : Len(w) > 2))
                ELSE Null))

searchDevice(handle, file, rows, fault, searchTerm) ==
  IF ~dbReady(handle, file, rows, fault) THEN Return(Null)
  ELSE IF ~TruthyStr(searchTerm) \/ trim(searchTerm) = << >> THEN Return(Null)
  ELSE catchWith(IF statement(fault, rows).raised THEN Throw
                 ELSE Return(searchStages(rows, trim(searchTerm))),
                 Null)

\* A variant without the retry
advancedNoRetry(rows, candidates, model) == candidates

\* Step 2 of advancedDeviceMatch, given the candidates of step 1
advancedRetry(rows, candidates, model) ==
  IF Len(candidates) = 0 /\ TruthyStr(model)
  THEN limit(selectLike(rows, model), 20)
  ELSE candidates

\* Without a model no statement is prepared and a faulty store goes unnoticed.
advancedDeviceMatch(handle, file, rows, fault, brand, model, screenWidth, screenHeight, gpuRenderer) ==
  IF ~dbReady(handle, file, rows, fault) THEN Return(Null)
  ELSE catchWith(
         IF TruthyStr(model) /\ statement(fault, rows).raised THEN Throw
         ELSE Return(headOrNull(
                advancedRetry(rows,
                              IF TruthyStr(brand) /\ TruthyStr(model)
                              THEN limit(selectLike(rows, trim(brand \o Lit.Space \o model)),
                                         20)
                              ELSE << >>,
                              model))),
         Null)

\* searchDevices with its default limit of 10
searchDevices(handle, file, rows, fault, searchTerm) ==
  IF ~dbReady(handle, file, rows, fault) THEN Return(<< >>)
  ELSE IF ~TruthyStr(searchTerm) \/ trim(searchTerm) = << >> THEN Return(<< >>)
  ELSE catchWith(IF statement(fault, rows).raised THEN Throw
                 ELSE Return(limit(selectLike(rows, trim(searchTerm)), 10)),
                 << >>)

----------------------------------------------------------------------------
\* Input values of the model

\* Strings the inputs of a run are made of: reported names, renderers, row
\* names of the reference table, candidate names
Sample == [
   Apple |-> <<"A", "p", "p", "l", "e">>,
   iPhone |-> <<"i", "P", "h", "o", "n", "e">>,
   Pixel_7 |-> <<"P", "i", "x", "e", "l", " ", "7">>,
   Adreno_710 |-> <<"A", "d", "r", "e", "n", "o", " ", "(", "T", "M", ")", " ", "7", "1", "0">>,
   Apple_GPU |-> <<"A", "p", "p", "l", "e", " ", "G", "P", "U">>,
   Google |-> <<"G", "o", "o", "g", "l", "e">>,
   Chromium |-> <<"C", "h", "r", "o", "m", "i", "u", "m">>,
   Apple_iPhone_12 |-> <<"A", "p", "p", "l", "e", " ", "i", "P", "h", "o", "n", "e", " ", "1", "2">>,
   Apple_iPhone_13 |-> <<"A", "p", "p", "l", "e", " ", "i", "P", "h", "o", "n", "e", " ", "1", "3">>,
   Nokia_G22 |-> <<"N", "o", "k", "i", "a", " ", "G", "2", "2">>,
   Google_Pixel_7_Pro |-> <<"G", "o", "o", "g", "l", "e", " ", "P", "i", "x", "e", "l", " ", "7", " ", "P", "r", "o">>,
   Motorola_Moto_G84_5G |-> <<"M", "o", "t", "o", "r", "o", "l", "a", " ", "M", "o", "t", "o", " ", "G", "8", "4", " ", "5", "G">>,
   iPhone_X |-> <<"i", "P", "h", "o", "n", "e", " ", "X">>,
   iPhone_XS |-> <<"i", "P", "h", "o", "n", "e", " ", "X", "S">>,
   iPhone_11 |-> <<"i", "P", "h", "o", "n", "e", " ", "1", "1">>,
   iPhone_X_S |-> <<"i", "P", "h", "o", "n", "e", " ", "X", " ", "S">>,
   iPhone_XR |-> <<"i", "P", "h", "o", "n", "e", " ", "X", "R">>,
   iPhone_8 |-> <<"i", "P", "h", "o", "n", "e", " ", "8">>,
   iPhone_13_Pro |-> <<"i", "P", "h", "o", "n", "e", " ", "1", "3", " ", "P", "r", "o">>,
   Mali_G710 |-> <<"M", "a", "l", "i", "-", "G", "7", "1", "0">>,
   Google_Pixel_7 |-> <<"G", "o", "o", "g", "l", "e", " ", "P", "i", "x", "e", "l", " ", "7">>,
   Samsung |-> <<"S", "a", "m", "s", "u", "n", "g">>,
   ANGLE_Adreno_740_Mali_G710 |-> <<" ", "A", "N", "G", "L", "E", " ", "(", "A", "d", "r", "e", "n", "o", " ", "(", "T", "M", ")", " ", "7", "4", "0", ",", " ", "M", "a", "l", "i", "-", "G", "7", "1", "0", ")", " ">>]

\* Rows the corpus of a run is drawn from.
RowPool == <<
  [standardised_full_name |-> Sample.Apple_iPhone_12, euicc |-> "false"],
  [standardised_full_name |-> Sample.Apple_iPhone_13, euicc |-> "true"],
  [standardised_full_name |-> Sample.Nokia_G22, euicc |-> "false"],
  [standardised_full_name |-> Sample.Google_Pixel_7_Pro, euicc |-> "true"],
  [standardised_full_name |-> Sample.Motorola_Moto_G84_5G, euicc |-> "true"]>>

\* Largest number of rows in the corpus of a run.
MaxRows == 2

\* The sub-sequence of RowPool at the indices in I, in pool order.
RECURSIVE poolRows(_, _)
poolRows(I, k) ==
  IF k > Len(RowPool) THEN << >>
  ELSE (IF k \in I THEN <<RowPool[k]>> ELSE << >>) \o poolRows(I, k + 1)

Corpora == {poolRows(I, 1) : I \in {J \in SUBSET (1..Len(RowPool)) : Cardinality(J) <= MaxRows}}


\* Search terms given to the matcher on its own: a stored name in another
\* case, a padded part of a name, two words of which the second is part of a
\* name, a term with a word of two characters that is part of a name, a term
\* with a LIKE wildcard, a term of three characters, a term no name has a
\* part of, and a blank term.
Terms == [
   exact |-> <<"g", "o", "o", "g", "l", "e", " ", "p", "i", "x", "e", "l", " ", "7">>,
   padded |-> <<"", "\n", " ", "P", "i", "x", "e", "l", " ", "7", "\f", "\r">>,
   secondWord |-> <<"S", "a", "m", "s", "u", "n", "g", " ", "N", "o", "k", "i", "a">>,
   shortWord |-> <<"z", "z", "", "1", "2", "\r", "N", "o", "k", "i", "a">>,
   wildcard |-> <<"P", "i", "x", "e", "l", "_", "7">>,
   three |-> <<"G", "2", "2">>,
   miss |-> <<"S", "a", "m", "s", "u", "n", "g", " ", "G", "a", "l", "a", "x", "y">>,
   blank |-> <<" ", " ">>]
----------------------------------------------------------------------------
\* State

VARIABLES
  dbFile,              \* "absent" or "present": the GSMA database file
  schema,              \* the table and the indexes the database file holds
  corpus,              \* rows of the devices table, in rowid order
  db,                  \* "closed" or "open": the module-level handle
  pc,                  \* position of the POST /log/:id handler
  req,                 \* the signals of the request being handled
  gsmaData,            \* locals of the handler, under their source names
  matchConfidence,
  deducedModel,
  eSIMFallback,
  androidFingerprint,
  iphoneFingerprint,
  gsmaMatches,
  finalESIMStatus,
  scanData,            \* the record the handler builds for the scan store
  scans,               \* the records of scans.json, in file order
  response,            \* the response to the last request handled
  errors,              \* what readScans and writeScans logged in the handler that ran last
  served,              \* number of requests received so far
  call,                \* the application of a function on its own: name and arguments
  ret,                 \* what that application returned
  inbox,               \* requests that have arrived and wait for the event loop
  outbox,              \* the response sent to each of the requests that waited
  sent,                \* the body each of the clients that wait has sent, by scan id
  csv,                 \* scripts/importGSMA.js: the lines of the source still to be read
  importPc,            \* position of the import script
  lineNumber,          \* its locals, under their source names
  headers,
  batch,
  totalImported,
  clientPc,            \* public/collector.js: position of sendDataAndRedirect
  redirectId,          \* window.REDIRECT_ID || 'default'
  fetched,             \* how the POST of the collector settles
  parsed,              \* result: the parsed body of its response
  href,                \* window.location.href once it has been assigned
  navigations          \* number of assignments to window.location.href

vars == <<dbFile, schema, corpus, db, pc, req, gsmaData, matchConfidence, deducedModel,
          eSIMFallback, androidFingerprint, iphoneFingerprint, gsmaMatches,
          finalESIMStatus, scanData, scans, response, errors, served, call, ret,
          inbox, outbox, sent, csv, importPc, lineNumber, headers, batch, totalImported,
          clientPc, redirectId, fetched, parsed, href, navigations>>

env == <<dbFile, schema, corpus>>

queue == <<inbox, outbox, sent>>

importer == <<csv, importPc, lineNumber, headers, batch, totalImported>>

\* The locals of the import script
importLocals == <<csv, lineNumber, headers, batch, totalImported>>

client == <<clientPc, redirectId, fetched, parsed, href, navigations>>

\* The programs that run apart from the server
apart == <<importer, client>>

\* No request waits.
noQueue == inbox = {} /\ outbox = << >> /\ sent = << >>

\* The objects of the schema: the table and its three indexes, in the order
\* in which initDatabase and the import script create them
Devices == "devices"

Indexes == <<"idx_full_name", "idx_manufacturer", "idx_full_name_lower">>

Objects == {Devices} \cup {Indexes[k] : k \in 1..Len(Indexes)}

\* The position of the import child after CREATE TABLE and after each
\* CREATE INDEX
Created == <<"table", "index1", "index2", "reading">>

\* Rows the import child writes into the database
ImportedRows == <<RowPool[3], RowPool[4]>>

\* The devices of the source of the child: none, as of a source with its
\* header only, or those rows
ImportSources == {<< >>, ImportedRows}

\* The import script is not run.
noImport ==
  /\ csv = << >>
  /\ importPc = "off"
  /\ lineNumber = 0
  /\ headers = << >>
  /\ batch = << >>
  /\ totalImported = 0

\* No page of the collector is open.
noClient ==
  /\ clientPc = "off"
  /\ redirectId = ""
  /\ fetched = << >>
  /\ parsed = << >>
  /\ href = << >>
  /\ navigations = 0

\* Largest number of requests in a run whose requests are any of Requests:
\* Spec follows a request of any body through the handler; what a request
\* leaves to the next is followed in SpecRestarted and SpecConcurrent.
MaxVaried == 1

\* Largest number of requests in a run of the server that started again
MaxRequests == 2

ScanIds == {"s1"}

NoReq ==
  [id |-> "", deviceBrand |-> Null, deviceModel |-> Null, screenWidth |-> Null,
   screenHeight |-> Null, pixelRatio |-> Null, gpuRenderer |-> Null,
   hardwareConcurrency |-> Null, clientHintsModel |-> Null,
   clientHintsBrand |-> Null]

\* The request bodies of the model, put together from the reported brand
\* and model, the screen geometry, the renderer and the client hints.
Identities ==
  [deviceBrand : {Null, Sample.Apple},
   deviceModel : {Null, Lit.K, Sample.iPhone, Sample.Pixel_7}]

Geometries ==
  {[screenWidth |-> Null, screenHeight |-> Null, pixelRatio |-> Null],
   [screenWidth |-> Some(390), screenHeight |-> Some(844), pixelRatio |-> Some(30)],
   [screenWidth |-> Some(432), screenHeight |-> Some(984), pixelRatio |-> Null],
   [screenWidth |-> Some(432), screenHeight |-> Null, pixelRatio |-> Null]}

Hints ==
  {[clientHintsModel |-> Null, clientHintsBrand |-> Null],
   [clientHintsModel |-> Sample.Pixel_7, clientHintsBrand |-> Null],
   [clientHintsModel |-> Sample.Pixel_7, clientHintsBrand |-> Sample.Google],
   [clientHintsModel |-> Sample.Pixel_7, clientHintsBrand |-> Sample.Chromium]}

Geometries0 == [screenWidth |-> Null, screenHeight |-> Null, pixelRatio |-> Null]

GeometryiPhone == [screenWidth |-> Some(390), screenHeight |-> Some(844), pixelRatio |-> Some(30)]

GeometryAndroid == [screenWidth |-> Some(432), screenHeight |-> Some(984), pixelRatio |-> Null]

Hints0 == [clientHintsModel |-> Null, clientHintsBrand |-> Null]

HintsPixel == [clientHintsModel |-> Sample.Pixel_7, clientHintsBrand |-> Null]

Request(id, identity, geometry, gpuRenderer, hints) ==
  [id |-> id, deviceBrand |-> identity.deviceBrand, deviceModel |-> identity.deviceModel,
   screenWidth |-> geometry.screenWidth, screenHeight |-> geometry.screenHeight,
   pixelRatio |-> geometry.pixelRatio, gpuRenderer |-> gpuRenderer,
   hardwareConcurrency |-> Null, clientHintsModel |-> hints.clientHintsModel,
   clientHintsBrand |-> hints.clientHintsBrand]

\* The other sizes of the iPhone table, as an iPhone reports them
BucketGeometries ==
  {[screenWidth |-> Some(iphoneMap[i].width), screenHeight |-> Some(iphoneMap[i].height),
    pixelRatio |-> Some(10 * iphoneMap[i].ratio)] : i \in 2..Len(iphoneMap)}

BucketRequests ==
  {Request(a[1], [deviceBrand |-> Sample.Apple, deviceModel |-> Sample.iPhone], a[2], Null,
           [clientHintsModel |-> Null, clientHintsBrand |-> Null]) :
     a \in ScanIds \X BucketGeometries}

Requests ==
  {Request(a[1], a[2], a[3], a[4], a[5]) :
     a \in ScanIds \X Identities \X Geometries \X {Null, Sample.Adreno_710} \X Hints}
  \cup BucketRequests

\* searchDevice as the server imports it, on the current store
searchGSMADevice(searchTerm) == searchDevice(db, dbFile, corpus, "none", searchTerm).value

\* m.euicc === 'true' || m.euicc === true
euiccFlag(m) == m.euicc = "true"

----------------------------------------------------------------------------
\* The store as the statements of a handler meet it

\* The import child is a process of its own: each statement of the server
\* is a read or a write of its own, and the child can have gone on before
\* any of them.  A store is the database file, its schema, the rows of its
\* table and the position of the child.
storeNow == [file |-> dbFile, schema |-> schema, rows |-> corpus, child |-> importPc]

\* The child ends by process.exit(1) or by an exception nobody catches.
exited1(s) == [s EXCEPT !.child = "exit1"]

\* fs.existsSync(CSV_FILE) and new Database(DB_PATH): without the source
\* the child exits, and so does a child that cannot be spawned; with it the
\* database file is created.
childStarts(s) ==
  IF s.child = "start"
  THEN {exited1(s), [s EXCEPT !.file = "present", !.child = "opened"]}
  ELSE {}

\* DROP TABLE IF EXISTS devices: the table goes with its rows and indexes.
childDrops(s) ==
  IF s.child = "opened"
  THEN {[s EXCEPT !.schema = {}, !.rows = << >>, !.child = "dropped"]}
  ELSE {}

\* CREATE TABLE devices raises when the table is there.
childCreates(s) ==
  IF s.child = "dropped"
  THEN {IF Devices \in s.schema THEN exited1(s)
        ELSE [s EXCEPT !.schema = @ \cup {Devices}, !.child = Created[1]]}
  ELSE {}

\* CREATE INDEX raises when the index is there.
childIndexes(s) ==
  {IF Indexes[k] \in s.schema THEN exited1(s)
   ELSE [s EXCEPT !.schema = @ \cup {Indexes[k]}, !.child = Created[k + 1]] :
     k \in {j \in 1..Len(Indexes) : s.child = Created[j]}}

\* rl.on('close'): the devices of the source, fewer than a batch holds, are
\* inserted in one transaction, none when the source has none, and the
\* child exits with code 0.
childCloses(s) ==
  IF s.child = "reading"
  THEN {[s EXCEPT !.rows = @ \o devices, !.child = "exit0"] : devices \in ImportSources}
  ELSE {}

\* rl.on('error'): the child exits with code 1.
childFails(s) == IF s.child = "reading" THEN {exited1(s)} ELSE {}

\* The stores one statement of the child leaves
childSteps(s) ==
  childStarts(s) \cup childDrops(s) \cup childCreates(s) \cup childIndexes(s)
    \cup childCloses(s) \cup childFails(s)

\* The stores the next statement can meet after the store s: s, and those
\* the statements of the child lead to from it
RECURSIVE later(_)
later(s) == {s} \cup UNION {later(t) : t \in childSteps(s)}

\* The stores the next statement can meet after one of the stores of S
met(S) == UNION {later(s) : s \in S}

\* The store a step leaves is the one its last statement left.
seen(s) ==
  /\ dbFile' = s.file
  /\ schema' = s.schema
  /\ corpus' = s.rows
  /\ importPc' = s.child

\* A run of a function is what it returned, the handle it left and the
\* store its last statement left; a run of a statement is what it returned,
\* whether it raised, and the store it left.  The runs of a function are
\* followed statement by statement, all of them together.

\* The runs of R that go on to the next statement, and the stores they left
going(R) == {r \in R : ~r.raised /\ r.value = Null}

stores(R) == {r.store : r \in R}

\* db.exec of CREATE ... IF NOT EXISTS: an index on a table that is not
\* there raises.
serverCreates(s, object) ==
  IF object # Devices /\ Devices \notin s.schema
  THEN [raised |-> TRUE, value |-> Null, store |-> s]
  ELSE [raised |-> FALSE, value |-> Null, store |-> [s EXCEPT !.schema = @ \cup {object}]]

\* The db.exec statements of initDatabase, one after another
RECURSIVE execRuns(_, _)
execRuns(R, objects) ==
  IF objects = << >> THEN R
  ELSE execRuns((R \ going(R))
                  \cup {serverCreates(a, Head(objects)) : a \in met(stores(going(R)))},
                Tail(objects))

\* SELECT COUNT(*) FROM devices, and the result of initDatabase on it
countRuns(S) ==
  {[value |-> Devices \in a.schema /\ Len(a.rows) > 0, handle |-> "open", store |-> a] :
     a \in met(S)}

\* initDatabase: existsSync, new Database, the db.exec statements and the
\* count of the table; a statement that raises ends in the catch block,
\* with the handle assigned.
initDatabaseRuns(handle, s) ==
  LET found == {a \in later(s) : a.file = "present"}
      made == execRuns({[raised |-> FALSE, value |-> Null, store |-> a] : a \in found},
                       <<Devices>> \o Indexes)
  IN {[value |-> FALSE, handle |-> handle, store |-> a] : a \in later(s) \ found}
       \cup {[value |-> FALSE, handle |-> "open", store |-> e.store] : e \in made \ going(made)}
       \cup countRuns(stores(going(made)))

\* if (!db) { const initResult = initDatabase(); ... }
guardRuns(handle, s) ==
  IF handle = "open" THEN {[value |-> TRUE, handle |-> handle, store |-> s]}
  ELSE initDatabaseRuns(handle, s)

\* stmt.get of the exact query and of the LIKE query; without the table the
\* statement raises.
getRuns(S, exact, term) ==
  {IF Devices \in a.schema
   THEN [raised |-> FALSE,
         value |-> get(limit(IF exact THEN selectExact(a.rows, term)
                             ELSE selectLike(a.rows, term), 1)),
         store |-> a]
   ELSE [raised |-> TRUE, value |-> Null, store |-> a] : a \in met(S)}

\* stmt.all of the LIKE query with LIMIT 20
allRuns(S, term) ==
  {IF Devices \in a.schema
   THEN [raised |-> FALSE, value |-> limit(selectLike(a.rows, term), 20), store |-> a]
   ELSE [raised |-> TRUE, value |-> << >>, store |-> a] : a \in met(S)}

\* for (const word of words) { ... if (result) break; }
RECURSIVE wordsRuns(_, _)
wordsRuns(R, words) ==
  IF words = << >> THEN R
  ELSE wordsRuns((R \ going(R)) \cup getRuns(stores(going(R)), FALSE, Head(words)),
                 Tail(words))

\* The three stages of searchDevice, each on the store it meets
searchStagesRuns(S, cleanTerm) ==
  LET exact == getRuns(S, TRUE, cleanTerm)
      substring == getRuns(stores(going(exact)), FALSE, cleanTerm)
  IN (exact \ going(exact))
       \cup (IF Len(cleanTerm) > 3
             THEN wordsRuns(substring, SelectSeq(splitWs(cleanTerm), LAMBDA w : Len(w) > 2))
             ELSE substring)

\* The runs of the guard after which the function goes on, without the
\* term when the function takes none
passing(guard, searchTerm) ==
  {g \in guard : g.value /\ TruthyStr(searchTerm) /\ trim(searchTerm) # << >>}

\* searchDevice as the server imports it; its catch block returns null.
searchDeviceRuns(handle, s, searchTerm) ==
  LET guard == guardRuns(handle, s)
      pass == passing(guard, searchTerm)
  IN {[value |-> Null, handle |-> g.handle, store |-> g.store] : g \in guard \ pass}
       \cup UNION {{[value |-> r.value, handle |-> h, store |-> r.store] :
                      r \in searchStagesRuns({g.store : g \in {x \in pass : x.handle = h}},
                                             trim(searchTerm))} :
                     h \in {g.handle : g \in pass}}

\* Step 1 of advancedDeviceMatch
candidatesRuns(S, brand, model) ==
  IF TruthyStr(brand) /\ TruthyStr(model)
  THEN allRuns(S, trim(brand \o Lit.Space \o model))
  ELSE {[raised |-> FALSE, value |-> << >>, store |-> s] : s \in S}

\* Step 2, given the runs of step 1
retryRuns(candidates, model) ==
  LET again == {c \in candidates : ~c.raised /\ Len(c.value) = 0 /\ TruthyStr(model)}
  IN (candidates \ again) \cup allRuns(stores(again), model)

\* advancedDeviceMatch; its catch block returns null.
advancedDeviceMatchRuns(handle, s, brand, model) ==
  LET guard == guardRuns(handle, s)
      pass == {g \in guard : g.value}
  IN {[value |-> Null, handle |-> g.handle, store |-> g.store] : g \in guard \ pass}
       \cup UNION {{[value |-> headOrNull(c.value), handle |-> h, store |-> c.store] :
                      c \in retryRuns(candidatesRuns({g.store : g \in {x \in pass : x.handle = h}},
                                                     brand, model),
                                      model)} :
                     h \in {g.handle : g \in pass}}

\* searchGSMADevice(term) || searchGSMADeviceFallback(term)
lookupRuns(handle, s, term) ==
  {[value |-> orElse(r.value, searchGSMADeviceFallback(term)), handle |-> r.handle,
    store |-> r.store] : r \in searchDeviceRuns(handle, s, term)}

\* The store the server finds when it starts: the file of an earlier
\* import, or none; without one a server in production spawns
\* scripts/importGSMA.js, and the others do not.
imported(rows) == [file |-> "present", schema |-> Objects, rows |-> rows, child |-> "off"]

notSpawned == [file |-> "absent", schema |-> {}, rows |-> << >>, child |-> "off"]

spawned == [notSpawned EXCEPT !.child = "start"]

\* initGSMADatabase() at startup: nothing orders it and the statements of
\* a child spawned just before.
startRuns(corpora) ==
  UNION {initDatabaseRuns("closed", s) :
           s \in {notSpawned, spawned} \cup {imported(rows) : rows \in corpora}}

\* The server has started on one of the stores.
started(corpora) ==
  \E run \in startRuns(corpora) :
    /\ db = run.handle
    /\ dbFile = run.store.file
    /\ schema = run.store.schema
    /\ corpus = run.store.rows
    /\ importPc = run.store.child

\* The locals of scripts/importGSMA.js are those of the child, which the
\* server does not see.
noImportLocals ==
  /\ csv = << >>
  /\ lineNumber = 0
  /\ headers = << >>
  /\ batch = << >>
  /\ totalImported = 0

\* The state after the server has started
Init ==
  /\ started(Corpora)
  /\ pc = "idle"
  /\ req = NoReq
  /\ gsmaData = Null
  /\ matchConfidence = 0
  /\ deducedModel = Null
  /\ eSIMFallback = Null
  /\ androidFingerprint = Null
  /\ iphoneFingerprint = Null
  /\ gsmaMatches = << >>
  /\ finalESIMStatus = Null
  /\ scanData = Null
  /\ scans = << >>
  /\ response = Null
  /\ errors = {}
  /\ served = 0
  /\ call = Null
  /\ ret = Null
  /\ noQueue
  /\ noImportLocals
  /\ noClient

----------------------------------------------------------------------------
\* POST /log/:id

\* Entry of the handler: the request body is read and the locals are
\* initialised.
ReceiveOf(bodies, most) ==
  /\ pc = "idle"
  /\ served < most
  /\ served' = served + 1
  /\ \E r \in bodies : req' = r
  /\ response' = Null
  /\ errors' = {}
  /\ gsmaData' = Null
  /\ matchConfidence' = 0
  /\ deducedModel' = Null
  /\ eSIMFallback' = Null
  /\ androidFingerprint' = Null
  /\ iphoneFingerprint' = Null
  /\ gsmaMatches' = << >>
  /\ finalESIMStatus' = Null
  /\ scanData' = Null
  /\ pc' = "android"
  /\ UNCHANGED <<env, call, ret, apart, queue, db, scans>>

Receive == ReceiveOf(Requests, MaxVaried)

\* The hits among the results of looking up the candidates, in candidate
\* order: the loop of the Apple tier pushes every non-null result.
collectHits(results) == unwrapAll(nonNull(results))

\* The first hit among the results: the loop of the Android tier breaks there.
firstHit(results) == headOrNull(unwrapAll(nonNull(results)))

\* searchGSMADevice on each candidate of the Android fingerprint
androidLookups(models) == [i \in 1..Len(models) |-> searchGSMADevice(models[i])]

androidGuard(r) ==
  /\ ~TruthyStr(r.deviceBrand) \/ ~TruthyStr(r.deviceModel) \/ r.deviceModel = Lit.K
  /\ TruthyStr(r.gpuRenderer)
  /\ TruthyNum(r.screenWidth)

\* A variant that gives a fingerprint without a hit no confidence
androidConfidenceOfHit(fingerprint, foundMatch) ==
  IF foundMatch THEN (IF fingerprint.isUnique THEN 100 ELSE 50) ELSE 0

androidConfidence(fingerprint, foundMatch) ==
  IF foundMatch THEN (IF fingerprint.isUnique THEN 100 ELSE 50) ELSE 50

\* The one run with which a loop starts
entering == {[value |-> << >>, handle |-> db, store |-> storeNow]}

\* The runs of a loop over the candidates are the results so far, the
\* handle and the store.
extended(r, lookups) ==
  {[value |-> Append(r.value, l.value), handle |-> l.handle, store |-> l.store] :
     l \in lookups}

\* The loop of the Android tier has found a hit and has left.
broken(r) == r.value # << >> /\ r.value[Len(r.value)] # Null

\* The loop of the Android tier: searchGSMADevice on each candidate, up to
\* the first hit; the value is the list of the results.
RECURSIVE androidRuns(_, _)
androidRuns(R, models) ==
  IF models = << >> THEN R
  ELSE androidRuns({r \in R : broken(r)}
                     \cup UNION {extended(r, searchDeviceRuns(r.handle, r.store, Head(models))) :
                                   r \in {x \in R : ~broken(x)}},
                   Tail(models))

\* The body of "if (androidFingerprint)": hit is the first candidate's hit.
androidMatched(fingerprint, hit) ==
  /\ deducedModel' = fingerprint.displayName
  /\ gsmaData' = (IF hit # Null THEN hit ELSE gsmaData)
  /\ matchConfidence' = androidConfidence(fingerprint, hit # Null)

androidResolved(fp) ==
  /\ androidFingerprint' = fp
  /\ IF fp # Null
     THEN \E run \in androidRuns(entering, Val(fp).models) :
            /\ androidMatched(Val(fp), firstHit(run.value))
            /\ db' = run.handle
            /\ seen(run.store)
     ELSE UNCHANGED <<deducedModel, gsmaData, matchConfidence, db, env, importPc>>

\* Priority 2: Android GPU fingerprinting
AndroidTier ==
  /\ pc = "android"
  /\ androidResolved(IF androidGuard(req)
                     THEN identifyAndroidByGPU(req.gpuRenderer, req.screenWidth,
                                               req.screenHeight)
                     ELSE Null)
  /\ pc' = "apple"
  /\ UNCHANGED <<call, ret, importLocals, client, queue, scans, response, errors, served, req, eSIMFallback, iphoneFingerprint, gsmaMatches,
                 finalESIMStatus, scanData>>

\* A variant of the condition that looks at the reported identity only
appleGuardOfIdentity(r, aFingerprint) ==
  \/ TruthyStr(r.deviceBrand) /\ includes(toLowerCase(r.deviceBrand), Lit.apple)
  \/ TruthyStr(r.deviceModel) /\ includes(toLowerCase(r.deviceModel), Lit.iphone)

\* The condition of the Apple tier
appleGuard(r, aFingerprint) ==
  /\ aFingerprint = Null
  /\ \/ TruthyStr(r.deviceBrand) /\ includes(toLowerCase(r.deviceBrand), Lit.apple)
     \/ TruthyStr(r.deviceModel) /\ includes(toLowerCase(r.deviceModel), Lit.iphone)

\* searchGSMADevice, then the static list when it returns null
appleLookup(model) == orElse(searchGSMADevice(model), searchGSMADeviceFallback(model))

appleLookups(models) == [i \in 1..Len(models) |-> appleLookup(models[i])]

allAgree(matches) ==
  /\ Len(matches) > 0
  /\ \A i \in 1..Len(matches) : euiccFlag(matches[i]) = euiccFlag(matches[1])

\* eSIMFallback after the agreement check of the Apple tier
appleFallback(fingerprint, matches, fallback) ==
  IF matches # << >> THEN
    IF allAgree(matches) /\ Len(matches) = Len(fingerprint.models) THEN fallback
    ELSE IF Len(matches) < Len(fingerprint.models)
         THEN Some(isiPhoneESIMCompatible(fingerprint.models))
    ELSE fallback
  ELSE Some(isiPhoneESIMCompatible(fingerprint.models))

\* A variant that takes every hit for a unique one
appleConfidenceOfHit(fingerprint, foundMatch) == IF foundMatch THEN 100 ELSE 50

appleConfidence(fingerprint, foundMatch) ==
  IF foundMatch THEN (IF fingerprint.isUnique THEN 100 ELSE 50) ELSE 50

\* The body of "if (iphoneFingerprint)": matches are the collected hits.
appleMatched(fingerprint, matches) ==
  /\ deducedModel' = fingerprint.displayName
  /\ gsmaMatches' = matches
  /\ gsmaData' = (IF matches # << >> THEN Some(matches[1]) ELSE gsmaData)
  /\ eSIMFallback' = appleFallback(fingerprint, matches, eSIMFallback)
  /\ matchConfidence' = appleConfidence(fingerprint, matches # << >>)

\* The loop of the Apple tier: every candidate is looked up; the value is
\* the list of the results.
RECURSIVE appleRuns(_, _)
appleRuns(R, models) ==
  IF models = << >> THEN R
  ELSE appleRuns(UNION {extended(r, lookupRuns(r.handle, r.store, Head(models))) : r \in R},
                 Tail(models))

appleResolved(fp) ==
  /\ iphoneFingerprint' = fp
  /\ IF fp # Null
     THEN \E run \in appleRuns(entering, Val(fp).models) :
            /\ appleMatched(Val(fp), collectHits(run.value))
            /\ db' = run.handle
            /\ seen(run.store)
     ELSE UNCHANGED <<deducedModel, gsmaMatches, gsmaData, eSIMFallback,
                      matchConfidence, db, env, importPc>>

\* Priority 3: iPhone fingerprinting.  The condition is evaluated; when it
\* holds the handler goes on to the attempt (position "iphone").
AppleTier ==
  /\ pc = "apple"
  /\ pc' = (IF appleGuard(req, androidFingerprint) THEN "iphone" ELSE "hints")
  /\ UNCHANGED <<env, call, ret, apart, queue, scans, response, errors, served, db, req, gsmaData, matchConfidence,
                 deducedModel, eSIMFallback, androidFingerprint, iphoneFingerprint,
                 gsmaMatches, finalESIMStatus, scanData>>

\* The attempt: identifyiPhoneModel is called and its candidates are looked up.
AppleAttempt ==
  /\ pc = "iphone"
  /\ appleResolved(identifyiPhoneModel(req.screenWidth, req.screenHeight, req.pixelRatio,
                                       req.gpuRenderer, req.hardwareConcurrency))
  /\ pc' = "hints"
  /\ UNCHANGED <<call, ret, importLocals, client, queue, scans, response, errors, served, req,
                 androidFingerprint, finalESIMStatus, scanData>>
\* searchGSMADevice, then the static list when it returns null
hintsLookup(searchTerm) ==
  orElse(searchGSMADevice(searchTerm), searchGSMADeviceFallback(searchTerm))

hintsGuard(r, data, aFingerprint, iFingerprint) ==
  /\ data = Null
  /\ aFingerprint = Null
  /\ iFingerprint = Null
  /\ TruthyStr(r.clientHintsModel)

hintsSearchTerm(r) ==
  IF TruthyStr(r.clientHintsBrand)
  THEN r.clientHintsBrand \o Lit.Space \o r.clientHintsModel
  ELSE r.clientHintsModel

\* A variant that does not tell the retry from the first query
hintsConfidenceFlat(onFirstQuery) == 90

\* Confidence of a Client Hints hit: on the first query, on the retry.
hintsConfidence(onFirstQuery) == IF onFirstQuery THEN 90 ELSE 85

hintsHit(result, onFirstQuery) ==
  /\ gsmaData' = result
  /\ deducedModel' = Val(result).standardised_full_name
  /\ matchConfidence' = hintsConfidence(onFirstQuery)

\* The else branch: the retry with the model name alone
hintsRetry(second) ==
  IF second # Null THEN hintsHit(second, FALSE)
  ELSE UNCHANGED <<gsmaData, deducedModel, matchConfidence>>

hintsFirst(first, second) ==
  IF first # Null THEN hintsHit(first, TRUE) ELSE hintsRetry(second)

\* The lookup of brand and model and, when it returns nothing, the retry
hintsRuns(handle, s, r) ==
  UNION {IF first.value # Null
         THEN {[first |-> first.value, second |-> Null, handle |-> first.handle,
                store |-> first.store]}
         ELSE {[first |-> Null, second |-> second.value, handle |-> second.handle,
                store |-> second.store] :
                 second \in lookupRuns(first.handle, first.store, r.clientHintsModel)} :
           first \in lookupRuns(handle, s, hintsSearchTerm(r))}

\* Step A: Client Hints
ClientHintsStep ==
  /\ pc = "hints"
  /\ IF hintsGuard(req, gsmaData, androidFingerprint, iphoneFingerprint)
     THEN \E run \in hintsRuns(db, storeNow, req) :
            /\ hintsFirst(run.first, run.second)
            /\ db' = run.handle
            /\ seen(run.store)
     ELSE UNCHANGED <<gsmaData, deducedModel, matchConfidence, db, env, importPc>>
  /\ pc' = "advanced"
  /\ UNCHANGED <<call, ret, importLocals, client, queue, scans, response, errors, served, req, eSIMFallback, androidFingerprint, iphoneFingerprint,
                 gsmaMatches, finalESIMStatus, scanData>>

advancedGuard(r, data, aFingerprint, iFingerprint) ==
  /\ data = Null
  /\ aFingerprint = Null
  /\ iFingerprint = Null
  /\ TruthyStr(r.deviceBrand) \/ TruthyStr(r.deviceModel)

advancedResult(result) ==
  /\ gsmaData' = result
  /\ matchConfidence' = (IF result # Null THEN 85 ELSE matchConfidence)

\* Step B/C: advanced matching with brand and model
AdvancedStep ==
  /\ pc = "advanced"
  /\ IF advancedGuard(req, gsmaData, androidFingerprint, iphoneFingerprint)
     THEN \E run \in advancedDeviceMatchRuns(db, storeNow, req.deviceBrand, req.deviceModel) :
            /\ advancedResult(run.value)
            /\ db' = run.handle
            /\ seen(run.store)
     ELSE UNCHANGED <<gsmaData, matchConfidence, db, env, importPc>>
  /\ pc' = "simple"
  /\ UNCHANGED <<call, ret, importLocals, client, queue, scans, response, errors, served, req, deducedModel, eSIMFallback, androidFingerprint,
                 iphoneFingerprint, gsmaMatches, finalESIMStatus, scanData>>

\* A variant of the condition that holds on the first call of a store only
simpleGuardOnce(data, aFingerprint, iFingerprint) == data = Null /\ scans = << >>

\* "if (!gsmaData)": the only condition of the simple search
simpleGuard(data, aFingerprint, iFingerprint) == data = Null

\* A variant of the search term that never falls back on the brand
simpleTermOfModel(r) ==
  IF TruthyStr(r.deviceBrand) /\ TruthyStr(r.deviceModel)
  THEN trim(r.deviceBrand \o Lit.Space \o r.deviceModel)
  ELSE r.deviceModel

simpleSearchTerm(r) ==
  IF TruthyStr(r.deviceBrand) /\ TruthyStr(r.deviceModel)
  THEN trim(r.deviceBrand \o Lit.Space \o r.deviceModel)
  ELSE IF TruthyStr(r.deviceModel) THEN r.deviceModel
  ELSE IF TruthyStr(r.deviceBrand) THEN r.deviceBrand
  ELSE Null

\* A variant of the retry that takes its confidence whether it hits or not
simpleRetryAnyway(second) == gsmaData' = second /\ matchConfidence' = 50

\* The retry with the model name alone
simpleRetry(second) ==
  IF second # Null THEN gsmaData' = second /\ matchConfidence' = 50
  ELSE UNCHANGED <<gsmaData, matchConfidence>>

simpleFirst(first, second) ==
  IF first # Null THEN gsmaData' = first /\ matchConfidence' = 70
  ELSE simpleRetry(second)

\* The search with the term and, when it returns nothing and there is a
\* model, the retry with the model alone
simpleRuns(handle, s, r) ==
  UNION {IF first.value # Null \/ ~TruthyStr(r.deviceModel)
         THEN {[first |-> first.value, second |-> Null, handle |-> first.handle,
                store |-> first.store]}
         ELSE {[first |-> Null, second |-> second.value, handle |-> second.handle,
                store |-> second.store] :
                 second \in searchDeviceRuns(first.handle, first.store, r.deviceModel)} :
           first \in searchDeviceRuns(handle, s, simpleSearchTerm(r))}

\* Step C: simple search
SimpleSearchStep ==
  /\ pc = "simple"
  /\ IF simpleGuard(gsmaData, androidFingerprint, iphoneFingerprint)
        /\ TruthyStr(simpleSearchTerm(req))
     THEN \E run \in simpleRuns(db, storeNow, req) :
            /\ simpleFirst(run.first, run.second)
            /\ db' = run.handle
            /\ seen(run.store)
     ELSE UNCHANGED <<gsmaData, matchConfidence, db, env, importPc>>
  /\ pc' = "final"
  /\ UNCHANGED <<call, ret, importLocals, client, queue, scans, response, errors, served, req, deducedModel, eSIMFallback, androidFingerprint,
                 iphoneFingerprint, gsmaMatches, finalESIMStatus, scanData>>

\* Final eSIM status determination
finalStatus(iFingerprint, matches, data, fallback) ==
  IF iFingerprint # Null /\ Len(matches) > 0 THEN
    IF allAgree(matches) /\ Len(matches) = Len(Val(iFingerprint).models)
    THEN Some(euiccFlag(matches[1]))
    ELSE IF allAgree(matches) /\ Len(matches) > 0 THEN Some(euiccFlag(matches[1]))
    ELSE IF fallback # Null THEN fallback
    ELSE IF data # Null THEN Some(euiccFlag(Val(data)))
    ELSE Null
  ELSE IF data # Null THEN Some(euiccFlag(Val(data)))
  ELSE IF fallback # Null THEN fallback
  ELSE Null

\* scanData.isResolutionBased
resolutionBased(iFingerprint, aFingerprint) ==
  IF iFingerprint # Null THEN ~Val(iFingerprint).isUnique ELSE FALSE

\* The enrichment fields of the record handed to upsertScan
buildScanData(id, data, confidence, deduced, iFingerprint, aFingerprint, fallback, status) ==
  [scanId |-> id,
   gsmaData |-> data,
   matchConfidence |-> confidence,
   deducedModel |-> deduced,
   iphoneFingerprint |->
     IF iFingerprint # Null
     THEN Some([models |-> Val(iFingerprint).models,
                isUnique |-> Val(iFingerprint).isUnique,
                displayName |-> Val(iFingerprint).displayName])
     ELSE Null,
   eSIMFallback |-> fallback,
   eSIMCompatible |->
     IF status # Null THEN status
     ELSE IF data # Null THEN Some(euiccFlag(Val(data)))
     ELSE Null,
   isResolutionBased |-> resolutionBased(iFingerprint, aFingerprint)]

Finalize ==
  /\ pc = "final"
  /\ finalESIMStatus' = finalStatus(iphoneFingerprint, gsmaMatches, gsmaData, eSIMFallback)
  /\ scanData' = Some(buildScanData(req.id, gsmaData, matchConfidence, deducedModel,
                                    iphoneFingerprint, androidFingerprint, eSIMFallback,
                                    finalStatus(iphoneFingerprint, gsmaMatches, gsmaData,
                                                eSIMFallback)))
  /\ pc' = "done"
  /\ UNCHANGED <<env, call, ret, apart, queue, scans, response, errors, served, db, req, gsmaData, matchConfidence, deducedModel, eSIMFallback,
                 androidFingerprint, iphoneFingerprint, gsmaMatches>>

\* Indices of the stored records with the given scanId
indicesOf(stored, scanId) == {i \in 1..Len(stored) : stored[i].scanId = scanId}

\* A variant that adds the record whether the id is stored or not
appendScan(stored, data) == Append(stored, data)

\* upsertScan, as far as the list it hands to writeScans: the first record
\* with the scanId is replaced, or the record is appended.
upsertScan(stored, data) ==
  IF indicesOf(stored, data.scanId) # {}
  THEN [i \in 1..Len(stored) |->
          IF i \in indicesOf(stored, data.scanId)
             /\ \A j \in indicesOf(stored, data.scanId) : i <= j
          THEN data ELSE stored[i]]
  ELSE Append(stored, data)

\* res.json of the success branch; res.status(500).json of the catch branch
okResponse(id) ==
  [status |-> 200, success |-> TRUE, scanId |-> id, redirectUrl |-> <<"/result/", id>>]

errorResponse == [status |-> 500, success |-> FALSE, error |-> "Failed to log device data"]

\* readScans: the records of the file, or none when reading or parsing fails
readScans(stored, readable) == IF readable THEN stored ELSE << >>

\* The file after upsertScan: what it read, with the record put in, when
\* writeScans succeeds; the file as it was when writeScans fails.
scansAfterUpsert(stored, readable, written, data) ==
  IF written THEN upsertScan(readScans(stored, readable), data) ELSE stored

\* getScanById: the first record of the id among those read, or null
getScanById(stored, readable, scanId) ==
  IF indicesOf(readScans(stored, readable), scanId) = {} THEN Null
  ELSE Some(readScans(stored, readable)[
              CHOOSE i \in indicesOf(readScans(stored, readable), scanId) :
                \A j \in indicesOf(readScans(stored, readable), scanId) : i <= j])

\* What readScans and writeScans write with console.error when they fail
readError == "Error reading scans.json"

writeError == "Error writing scans.json"

logged(readable, written) ==
  (IF readable THEN {} ELSE {readError}) \cup (IF written THEN {} ELSE {writeError})

\* The scan is written and the response is sent; the handler returns and its
\* locals are gone.  Reading the file can fail, and so can writing it: then
\* the file is left as it was and the handler answers 500.
Respond ==
  /\ pc = "done"
  /\ \E readable, written \in BOOLEAN :
       /\ scans' = scansAfterUpsert(scans, readable, written, Val(scanData))
       /\ response' = Some(IF written THEN okResponse(req.id) ELSE errorResponse)
       /\ errors' = logged(readable, written)
  /\ outbox' = (IF req.id \in DOMAIN outbox THEN [outbox EXCEPT ![req.id] = response'] ELSE outbox)
  /\ pc' = "idle"
  /\ req' = NoReq
  /\ gsmaData' = Null
  /\ matchConfidence' = 0
  /\ deducedModel' = Null
  /\ eSIMFallback' = Null
  /\ androidFingerprint' = Null
  /\ iphoneFingerprint' = Null
  /\ gsmaMatches' = << >>
  /\ finalESIMStatus' = Null
  /\ scanData' = Null
  /\ UNCHANGED <<env, call, ret, apart, inbox, sent, db, served>>

----------------------------------------------------------------------------
\* GET /result/:id

\* Ids a result page is asked for: those of the requests, and one more
ResultIds == ScanIds \cup {"s0"}

\* res.status(404).send of the page naming the id
notFoundResponse(id) == [status |-> 404, view |-> "not found", scanId |-> id]

\* A variant of the page that is rendered without the stored verdict
resultWithoutVerdict(scan) ==
  [status |-> 200, view |-> "result", scanId |-> scan.scanId, scan |-> scan,
   eSIMCompatible |-> Null]

\* res.render('result', {scan, eSIMCompatible, baseUrl})
resultResponse(scan) ==
  [status |-> 200, view |-> "result", scanId |-> scan.scanId, scan |-> scan,
   eSIMCompatible |-> scan.eSIMCompatible]

resultOf(scan, id) == IF scan = Null THEN notFoundResponse(id) ELSE resultResponse(Val(scan))

\* The handler runs between two calls of the logging handler; it reads the
\* file and leaves it alone.
GetResultOf(ids) ==
  /\ pc = "idle"
  /\ \E id \in ids, readable \in BOOLEAN :
       /\ response' = Some(resultOf(getScanById(scans, readable, id), id))
       /\ errors' = logged(readable, TRUE)
  /\ UNCHANGED <<env, call, ret, apart, queue, db, served, scans, pc, req, gsmaData, matchConfidence,
                 deducedModel, eSIMFallback, androidFingerprint, iphoneFingerprint,
                 gsmaMatches, finalESIMStatus, scanData>>

GetResult == GetResultOf(ResultIds)

----------------------------------------------------------------------------
\* The automatic import

\* The import child writes the database file while the server handles
\* requests.  It is followed here by what each of its statements does to the
\* file (scripts/importGSMA.js line by line is SpecImport); what it does
\* between two statements of one step of a handler is part of that step.

\* What the child and its callback leave alone
notImporting == <<pc, req, gsmaData, matchConfidence, deducedModel, eSIMFallback,
                  androidFingerprint, iphoneFingerprint, gsmaMatches, finalESIMStatus,
                  scanData, scans, response, errors, served, call, ret, queue, client,
                  csv, lineNumber, headers, batch, totalImported>>

\* The child looks for its source and opens the database file.
ImportChildStarts ==
  /\ \E s \in childStarts(storeNow) : seen(s)
  /\ UNCHANGED <<notImporting, db>>

\* The child drops the table.
ImportChildDrops ==
  /\ \E s \in childDrops(storeNow) : seen(s)
  /\ UNCHANGED <<notImporting, db>>

\* The child creates the table, or ends on the one it finds.
ImportChildCreates ==
  /\ \E s \in childCreates(storeNow) : seen(s)
  /\ UNCHANGED <<notImporting, db>>

\* The child creates its next index, or ends on the one it finds.
ImportChildIndexes ==
  /\ \E s \in childIndexes(storeNow) : seen(s)
  /\ UNCHANGED <<notImporting, db>>

\* The child has read its source to the end.
ImportChildCloses ==
  /\ \E s \in childCloses(storeNow) : seen(s)
  /\ UNCHANGED <<notImporting, db>>

\* Reading the source fails.
ImportChildFails ==
  /\ \E s \in childFails(storeNow) : seen(s)
  /\ UNCHANGED <<notImporting, db>>

\* importProcess.on('close'): the child has ended; the callback runs between
\* two requests and calls initGSMADatabase() when the code is 0.
ImportClosed ==
  /\ pc = "idle"
  /\ importPc \in {"exit0", "exit1"}
  /\ IF importPc = "exit0"
     THEN \E run \in initDatabaseRuns(db, [storeNow EXCEPT !.child = "closed"]) :
            /\ db' = run.handle
            /\ seen(run.store)
     ELSE /\ db' = db
          /\ seen([storeNow EXCEPT !.child = "closed"])
  /\ UNCHANGED notImporting

Next ==
  \/ Receive
  \/ AndroidTier
  \/ AppleTier
  \/ AppleAttempt
  \/ ClientHintsStep
  \/ AdvancedStep
  \/ SimpleSearchStep
  \/ Finalize
  \/ Respond
  \/ GetResult
  \/ ImportChildStarts
  \/ ImportChildDrops
  \/ ImportChildCreates
  \/ ImportChildIndexes
  \/ ImportChildCloses
  \/ ImportChildFails
  \/ ImportClosed

Spec == Init /\ [][Next]_vars


----------------------------------------------------------------------------
\* The server started again on the scan store its earlier calls left

\* The record of a call that resolved nothing, as every store can hold it
unresolvedScan(id) == buildScanData(id, Null, 0, Null, Null, Null, Null, Null)

\* Scan stores left by earlier calls: none, a record of the id the next call
\* uses, a record of another id, and both with another record behind.
LeftScans ==
  {<< >>, <<unresolvedScan("s1")>>, <<unresolvedScan("s0")>>,
   <<unresolvedScan("s1"), unresolvedScan("s0")>>}

LeftCorpora == {<< >>, <<RowPool[1], RowPool[2]>>, <<RowPool[3], RowPool[4]>>}

InitRestarted ==
  /\ started(LeftCorpora)
  /\ pc = "idle"
  /\ req = NoReq
  /\ gsmaData = Null
  /\ matchConfidence = 0
  /\ deducedModel = Null
  /\ eSIMFallback = Null
  /\ androidFingerprint = Null
  /\ iphoneFingerprint = Null
  /\ gsmaMatches = << >>
  /\ finalESIMStatus = Null
  /\ scanData = Null
  /\ scans \in LeftScans
  /\ response = Null
  /\ errors = {}
  /\ served = 0
  /\ call = Null
  /\ ret = Null
  /\ noQueue
  /\ noImportLocals
  /\ noClient

\* The ids of the requests to the server that started again, and the ids a
\* result page is asked for
RepostIds == {"s1", "s2"}

LeftIds == RepostIds \cup {"s0"}

\* Their bodies: one that resolves nothing, one of client hints, which the
\* rows of a store resolve, and one of an iPhone
Reposts ==
  {Request(a[1], a[2][1], a[2][2], Null, a[2][3]) :
     a \in RepostIds \X
           {<<[deviceBrand |-> Null, deviceModel |-> Null], Geometries0, Hints0>>,
            <<[deviceBrand |-> Null, deviceModel |-> Null], Geometries0, HintsPixel>>,
            <<[deviceBrand |-> Sample.Apple, deviceModel |-> Sample.iPhone], GeometryiPhone,
              Hints0>>}}

ReceiveAgain == ReceiveOf(Reposts, MaxRequests)

GetResultAgain == GetResultOf(LeftIds)

NextRestarted ==
  \/ ReceiveAgain
  \/ AndroidTier
  \/ AppleTier
  \/ AppleAttempt
  \/ ClientHintsStep
  \/ AdvancedStep
  \/ SimpleSearchStep
  \/ Finalize
  \/ Respond
  \/ GetResultAgain
  \/ ImportChildStarts
  \/ ImportChildDrops
  \/ ImportChildCreates
  \/ ImportChildIndexes
  \/ ImportChildCloses
  \/ ImportChildFails
  \/ ImportClosed

SpecRestarted == InitRestarted /\ [][NextRestarted]_vars
----------------------------------------------------------------------------
\* The resolvers and the eSIM rule applied on their own

\* Model names the lists given to the eSIM rule are made of
ModelNames == {Sample.iPhone_X, Sample.iPhone_XS, Sample.iPhone_XR, Sample.iPhone_X_S, Sample.iPhone_8,
               Sample.iPhone_11, Sample.iPhone_13_Pro, Sample.Pixel_7}

\* Longest list given to the eSIM rule
MaxModels == 2

ModelLists == UNION {[1..n -> ModelNames] : n \in 0..MaxModels}

\* Screen sizes: those of the tables, sizes next to them, and none
Widths == {Null, Some(375), Some(390), Some(391), Some(393), Some(414), Some(428),
           Some(430), Some(432), Some(434), Some(435)}

Heights == {Null, Some(812), Some(844), Some(852), Some(896), Some(915), Some(918), Some(926), Some(932),
            Some(982), Some(984), Some(987)}

\* Pixel ratios in tenths, on both sides of the rounding steps, and none
Ratios == {Null, Some(20), Some(24), Some(25), Some(26), Some(30), Some(34), Some(35)}

Renderers == {Null, Sample.Adreno_710, Sample.Mali_G710, Sample.Apple_GPU,
              Sample.ANGLE_Adreno_740_Mali_G710}

Cores == {Null, Some(6)}

\* One application: the function and its arguments (those it does not take
\* are left null).
Call(fn, models, w, h, r, g, c) ==
  [fn |-> fn, models |-> models, screenWidth |-> w, screenHeight |-> h,
   pixelRatio |-> r, gpuRenderer |-> g, hardwareConcurrency |-> c]

Calls ==
  {Call("isiPhoneESIMCompatible", models, Null, Null, Null, Null, Null) :
     models \in ModelLists}
  \cup {Call("identifyiPhoneModel", << >>, a[1], a[2], a[3], a[4], a[5]) :
          a \in Widths \X Heights \X Ratios \X {Null, Sample.Apple_GPU} \X Cores}
  \cup {Call("identifyAndroidByGPU", << >>, a[1], a[2], Null, a[3], Null) :
          a \in Widths \X Heights \X Renderers}

\* Rows of the devices table when the matcher is applied on its own, in any
\* order: a name that is part of another, and two others.
MatcherRows ==
  {RowPool[1], RowPool[3], RowPool[4],
   [standardised_full_name |-> Sample.Google_Pixel_7, euicc |-> "true"]}

MatcherCorpora ==
  {rows \in UNION {[1..n -> MatcherRows] : n \in 0..MaxRows} :
     \A i, j \in 1..Len(rows) : i # j => rows[i] # rows[j]}

\* The store as a matcher call finds it: no file; a file and the handle of
\* startup; a file that appeared after startup, the handle still unset.
Stores ==
  {[dbFile |-> "absent", corpus |-> << >>, db |-> "closed"]}
  \cup [dbFile : {"present"}, corpus : MatcherCorpora, db : {"closed", "open"}]

SearchTerms == {Null, Terms.exact, Terms.padded, Terms.secondWord, Terms.shortWord,
               Terms.wildcard, Terms.three, Terms.miss, Terms.blank}

MatcherFunctions == {"searchDevice", "searchDevices", "advancedDeviceMatch"}

\* One application of a matcher function
MatcherCall(fn, fault, searchTerm, brand, model, w, h, g) ==
  [fn |-> fn, fault |-> fault, searchTerm |-> searchTerm, brand |-> brand, model |-> model,
   screenWidth |-> w, screenHeight |-> h, gpuRenderer |-> g]

MatcherCalls ==
  {MatcherCall(a[1], a[2], a[3], Null, Null, Null, Null, Null) :
     a \in {"searchDevice", "searchDevices"} \X Faults \X SearchTerms}
  \cup {MatcherCall("advancedDeviceMatch", a[1], Null, a[2], a[3], a[4][1], a[4][2], a[4][3]) :
          a \in Faults \X {Null, Sample.Google, Sample.Samsung}
                 \X {Null, Sample.Pixel_7, Terms.three}
                 \X {<<Null, Null, Null>>, <<Some(432), Some(984), Sample.Adreno_710>>}}

\* The two other functions of the matcher module, which take no argument
HandleFunctions == {"getStats", "closeDatabase"}

HandleCalls ==
  {MatcherCall("getStats", fault, Null, Null, Null, Null, Null, Null) : fault \in Faults}
  \cup {MatcherCall("closeDatabase", "none", Null, Null, Null, Null, Null, Null)}

\* Records of the scan file when the store functions are applied on their
\* own: of a call that resolved nothing, and of one that found a row.
resolvedScan(id) == buildScanData(id, Some(RowPool[2]), 70, Null, Null, Null, Null, Some(TRUE))

StoreIds == {"s0", "s1", "s2"}

StoreRecords == {unresolvedScan(id) : id \in StoreIds} \cup {resolvedScan(id) : id \in StoreIds}

\* Largest number of records in the scan file of such a call
MaxScans == 2

\* Scan files the server can have written: no two records of one id
ScanStores ==
  {stored \in UNION {[1..n -> StoreRecords] : n \in 0..MaxScans} :
     \A i, j \in 1..Len(stored) : i # j => stored[i].scanId # stored[j].scanId}

StoreFunctions == {"upsertScan", "getScanById"}

\* One application of a store function: readable and written say whether
\* reading and writing the file succeed during it.
StoreCall(fn, data, scanId, readable, written) ==
  [fn |-> fn, scanData |-> data, scanId |-> scanId, readable |-> readable, written |-> written]

StoreCalls ==
  {StoreCall("upsertScan", Some(a[1]), a[1].scanId, a[2], a[3]) :
     a \in StoreRecords \X BOOLEAN \X BOOLEAN}
  \cup {StoreCall("getScanById", Null, a[1], a[2], TRUE) : a \in StoreIds \X BOOLEAN}

\* The arguments are drawn; the server is at rest and takes no part.
InitFunctions ==
  /\ call \in {Some(c) : c \in Calls \cup MatcherCalls \cup HandleCalls \cup StoreCalls}
  /\ \E store \in (IF Val(call).fn \in MatcherFunctions \cup HandleFunctions THEN Stores
                    ELSE {[dbFile |-> "absent", corpus |-> << >>, db |-> "closed"]}) :
       /\ dbFile = store.dbFile
       /\ schema = (IF store.dbFile = "present" THEN Objects ELSE {})
       /\ corpus = store.corpus
       /\ db = store.db
  /\ pc = "idle"
  /\ req = NoReq
  /\ gsmaData = Null
  /\ matchConfidence = 0
  /\ deducedModel = Null
  /\ eSIMFallback = Null
  /\ androidFingerprint = Null
  /\ iphoneFingerprint = Null
  /\ gsmaMatches = << >>
  /\ finalESIMStatus = Null
  /\ scanData = Null
  /\ scans \in (IF Val(call).fn \in StoreFunctions THEN ScanStores ELSE {<< >>})
  /\ response = Null
  /\ errors = {}
  /\ served = 0
  /\ ret = Null
  /\ noQueue
  /\ noImport
  /\ noClient

\* What no function applied on its own touches; with the handle and the
\* scan file, the server.
atRest == <<dbFile, schema, corpus, pc, req, gsmaData, matchConfidence, deducedModel,
            eSIMFallback, androidFingerprint, iphoneFingerprint, gsmaMatches,
            finalESIMStatus, scanData, response, errors, served, queue, apart>>

machine == <<db, scans, atRest>>

\* ret holds Some of the returned value once the function has been applied.
ApplyIsiPhoneESIMCompatible ==
  /\ ret = Null
  /\ Val(call).fn = "isiPhoneESIMCompatible"
  /\ ret' = Some(isiPhoneESIMCompatible(Val(call).models))
  /\ UNCHANGED <<machine, call>>

ApplyIdentifyiPhoneModel ==
  /\ ret = Null
  /\ Val(call).fn = "identifyiPhoneModel"
  /\ ret' = Some(identifyiPhoneModel(Val(call).screenWidth, Val(call).screenHeight,
                                     Val(call).pixelRatio, Val(call).gpuRenderer,
                                     Val(call).hardwareConcurrency))
  /\ UNCHANGED <<machine, call>>

ApplyIdentifyAndroidByGPU ==
  /\ ret = Null
  /\ Val(call).fn = "identifyAndroidByGPU"
  /\ ret' = Some(identifyAndroidByGPU(Val(call).gpuRenderer, Val(call).screenWidth,
                                      Val(call).screenHeight))
  /\ UNCHANGED <<machine, call>>

\* The matcher functions leave the handle as their guard left it and end
\* with a value or by raising.
ApplySearchDevice ==
  /\ ret = Null
  /\ Val(call).fn = "searchDevice"
  /\ ret' = Some(searchDevice(db, dbFile, corpus, Val(call).fault, Val(call).searchTerm))
  /\ db' = (IF db = "open" THEN db ELSE dbAfterInit(db, dbFile, Val(call).fault))
  /\ UNCHANGED <<atRest, scans, call>>

ApplySearchDevices ==
  /\ ret = Null
  /\ Val(call).fn = "searchDevices"
  /\ ret' = Some(searchDevices(db, dbFile, corpus, Val(call).fault, Val(call).searchTerm))
  /\ db' = (IF db = "open" THEN db ELSE dbAfterInit(db, dbFile, Val(call).fault))
  /\ UNCHANGED <<atRest, scans, call>>

ApplyAdvancedDeviceMatch ==
  /\ ret = Null
  /\ Val(call).fn = "advancedDeviceMatch"
  /\ ret' = Some(advancedDeviceMatch(db, dbFile, corpus, Val(call).fault, Val(call).brand,
                                     Val(call).model, Val(call).screenWidth,
                                     Val(call).screenHeight, Val(call).gpuRenderer))
  /\ db' = (IF db = "open" THEN db ELSE dbAfterInit(db, dbFile, Val(call).fault))
  /\ UNCHANGED <<atRest, scans, call>>

ApplyGetStats ==
  /\ ret = Null
  /\ Val(call).fn = "getStats"
  /\ ret' = Some(getStats(db, dbFile, corpus, Val(call).fault))
  /\ db' = (IF db = "open" THEN db ELSE dbAfterInit(db, dbFile, Val(call).fault))
  /\ UNCHANGED <<atRest, scans, call>>

\* closeDatabase returns nothing.
ApplyCloseDatabase ==
  /\ ret = Null
  /\ Val(call).fn = "closeDatabase"
  /\ ret' = Some(Return(Null))
  /\ db' = closeDatabase(db)
  /\ UNCHANGED <<atRest, scans, call>>

\* upsertScan returns what writeScans returned.
ApplyUpsertScan ==
  /\ ret = Null
  /\ Val(call).fn = "upsertScan"
  /\ scans' = scansAfterUpsert(scans, Val(call).readable, Val(call).written,
                               Val(Val(call).scanData))
  /\ ret' = Some(Val(call).written)
  /\ UNCHANGED <<atRest, db, call>>

ApplyGetScanById ==
  /\ ret = Null
  /\ Val(call).fn = "getScanById"
  /\ ret' = Some(getScanById(scans, Val(call).readable, Val(call).scanId))
  /\ UNCHANGED <<machine, call>>

NextFunctions ==
  \/ ApplyIsiPhoneESIMCompatible
  \/ ApplyIdentifyiPhoneModel
  \/ ApplyIdentifyAndroidByGPU
  \/ ApplySearchDevice
  \/ ApplySearchDevices
  \/ ApplyAdvancedDeviceMatch
  \/ ApplyGetStats
  \/ ApplyCloseDatabase
  \/ ApplyUpsertScan
  \/ ApplyGetScanById

SpecFunctions == InitFunctions /\ [][NextFunctions]_vars


----------------------------------------------------------------------------
\* Two requests that arrive together

\* Node runs the handler of POST /log/:id, which awaits nothing and reads and
\* writes the scan file with the synchronous calls of fs, from its first
\* statement to its last before the event loop takes the next request: a
\* request that has arrived waits until the handler is back at rest.

\* The bodies of the two requests: one that resolves nothing, one that the
\* Android tier takes, one of client hints, one of an iPhone, and one that the
\* simple search takes
Arrivals ==
  {Request("", [deviceBrand |-> Null, deviceModel |-> Null], Geometries0, Null, Hints0),
   Request("", [deviceBrand |-> Null, deviceModel |-> Lit.K], GeometryAndroid,
           Sample.Adreno_710, Hints0),
   Request("", [deviceBrand |-> Null, deviceModel |-> Null], Geometries0, Null, HintsPixel),
   Request("", [deviceBrand |-> Sample.Apple, deviceModel |-> Sample.iPhone], GeometryiPhone,
           Null, Hints0),
   Request("", [deviceBrand |-> Null, deviceModel |-> Sample.Pixel_7], Geometries0, Null,
           Hints0)}

\* The ids of the two requests
ArrivalIds == <<"s1", "s2">>

ArrivalPairs ==
  {{[a EXCEPT !.id = ArrivalIds[1]], [b EXCEPT !.id = ArrivalIds[2]]} : a, b \in Arrivals}

InitConcurrent ==
  /\ started(LeftCorpora)
  /\ pc = "idle"
  /\ req = NoReq
  /\ gsmaData = Null
  /\ matchConfidence = 0
  /\ deducedModel = Null
  /\ eSIMFallback = Null
  /\ androidFingerprint = Null
  /\ iphoneFingerprint = Null
  /\ gsmaMatches = << >>
  /\ finalESIMStatus = Null
  /\ scanData = Null
  /\ scans = << >>
  /\ response = Null
  /\ errors = {}
  /\ served = 0
  /\ call = Null
  /\ ret = Null
  /\ inbox \in ArrivalPairs
  /\ outbox = [id \in {ArrivalIds[1], ArrivalIds[2]} |-> Null]
  /\ sent = [id \in {ArrivalIds[1], ArrivalIds[2]} |-> CHOOSE r \in inbox : r.id = id]
  /\ noImportLocals
  /\ noClient

\* The event loop hands one of the waiting requests to the handler.
Dispatch ==
  /\ pc = "idle"
  /\ \E r \in inbox :
       /\ req' = r
       /\ inbox' = inbox \ {r}
  /\ served' = served + 1
  /\ response' = Null
  /\ errors' = {}
  /\ gsmaData' = Null
  /\ matchConfidence' = 0
  /\ deducedModel' = Null
  /\ eSIMFallback' = Null
  /\ androidFingerprint' = Null
  /\ iphoneFingerprint' = Null
  /\ gsmaMatches' = << >>
  /\ finalESIMStatus' = Null
  /\ scanData' = Null
  /\ pc' = "android"
  /\ UNCHANGED <<env, call, ret, apart, outbox, sent, db, scans>>

NextConcurrent ==
  \/ Dispatch
  \/ AndroidTier
  \/ AppleTier
  \/ AppleAttempt
  \/ ClientHintsStep
  \/ AdvancedStep
  \/ SimpleSearchStep
  \/ Finalize
  \/ Respond
  \/ ImportChildStarts
  \/ ImportChildDrops
  \/ ImportChildCreates
  \/ ImportChildIndexes
  \/ ImportChildCloses
  \/ ImportChildFails
  \/ ImportClosed

SpecConcurrent == InitConcurrent /\ [][NextConcurrent]_vars

----------------------------------------------------------------------------
\* scripts/importGSMA.js

\* Texts of the source file and of the script
Csv == [
   StandardisedFullName |-> <<"S", "t", "a", "n", "d", "a", "r", "d", "i", "s", "e", "d", "F", "u", "l", "l", "N", "a", "m", "e">>,
   standardisedfullname |-> <<"s", "t", "a", "n", "d", "a", "r", "d", "i", "s", "e", "d", "f", "u", "l", "l", "n", "a", "m", "e">>,
   eUICC_padded |-> <<" ", "e", "U", "I", "C", "C", " ">>,
   euicc |-> <<"e", "u", "i", "c", "c">>,
   Bands |-> <<"B", "a", "n", "d", "s">>,
   Apple_iPhone_13 |-> <<"A", "p", "p", "l", "e", " ", "i", "P", "h", "o", "n", "e", " ", "1", "3">>,
   Nokia_G22 |-> <<"N", "o", "k", "i", "a", " ", "G", "2", "2">>,
   Not_in_Signaling |-> <<"N", "o", "t", " ", "i", "n", " ", "S", "i", "g", "n", "a", "l", "i", "n", "g">>,
   Not_Known |-> <<"N", "o", "t", " ", "K", "n", "o", "w", "n">>,
   Not_Known_padded |-> <<" ", "N", "o", "t", " ", "K", "n", "o", "w", "n", " ">>,
   not_known |-> <<"n", "o", "t", " ", "k", "n", "o", "w", "n">>,
   true |-> <<"t", "r", "u", "e">>,
   false |-> <<"f", "a", "l", "s", "e">>,
   blank |-> <<" ", " ">>,
   x |-> <<"x">>]

\* line.split('|'): the pieces between the bars; a line without a bar is one piece
RECURSIVE splitBar(_)
splitBar(line) ==
  IF \A i \in 1..Len(line) : line[i] # "|"
  THEN <<line>>
  ELSE LET at == CHOOSE i \in 1..Len(line) :
                   line[i] = "|" /\ \A j \in 1..(i - 1) : line[j] # "|"
       IN <<SubSeq(line, 1, at - 1)>> \o splitBar(SubSeq(line, at + 1, Len(line)))

\* headers.indexOf(name), from 1; 0 when the name is not among them
indexOf(list, name) ==
  IF \E i \in 1..Len(list) : list[i] = name
  THEN CHOOSE i \in 1..Len(list) : list[i] = name /\ \A j \in 1..(i - 1) : list[j] # name
  ELSE 0

\* values[headers.indexOf(name)] || null
valueOf(values, list, name) ==
  IF indexOf(list, name) = 0 THEN Null ELSE values[indexOf(list, name)]

\* line.split('|').map(h => h.trim().toLowerCase())
headersOf(line) == [i \in 1..Len(splitBar(line)) |-> toLowerCase(trim(splitBar(line)[i]))]

\* line.split('|').map(v => v.trim())
valuesOf(line) == [i \in 1..Len(splitBar(line)) |-> trim(splitBar(line)[i])]

\* The device object, with the columns the server reads
deviceOf(values, list) ==
  [standardised_full_name |-> valueOf(values, list, Csv.standardisedfullname),
   euicc |-> valueOf(values, list, Csv.euicc)]

\* A variant of the test that lets "Not Known" through
skippedButNotKnown(device) ==
  \/ device.standardised_full_name = Csv.Not_in_Signaling
  \/ device.standardised_full_name = Null

\* Skip entries with "Not in Signaling" or invalid data
skipped(device) ==
  \/ device.standardised_full_name = Csv.Not_in_Signaling
  \/ device.standardised_full_name = Null
  \/ device.standardised_full_name = Csv.Not_Known

\* Number of devices of a batch
BATCH_SIZE == 1000

\* Largest number of lines after the first
MaxLines == 3

\* The line of a list of fields
RECURSIVE csvLine(_)
csvLine(fields) ==
  IF Len(fields) = 0 THEN << >>
  ELSE IF Len(fields) = 1 THEN fields[1]
  ELSE fields[1] \o <<"|">> \o csvLine(Tail(fields))

\* First lines: the header in mixed case and padded, one with the columns
\* the other way round, one without the name column, and a blank line.
FirstLines ==
  {csvLine(<<Csv.StandardisedFullName, Csv.eUICC_padded>>),
   csvLine(<<Csv.euicc, Csv.standardisedfullname>>),
   csvLine(<<Csv.Bands, Csv.euicc>>),
   Csv.blank}

\* Later lines: devices, the excluded names, a padded one, a name in another
\* case, lines with too few and too many fields, a blank line.
LaterLines ==
  {csvLine(<<Csv.Apple_iPhone_13, Csv.true>>),
   csvLine(<<Csv.Nokia_G22, Csv.false>>),
   csvLine(<<Csv.Not_in_Signaling, Csv.false>>),
   csvLine(<<Csv.Not_Known_padded, Csv.true>>),
   csvLine(<<Csv.not_known, << >> >>),
   csvLine(<<<< >>, Csv.true>>),
   csvLine(<<Csv.Nokia_G22>>),
   csvLine(<<Csv.Nokia_G22, Csv.false, Csv.x>>),
   Csv.blank}

RECURSIVE linesUpTo(_)
linesUpTo(n) ==
  IF n = 0 THEN {<< >>}
  ELSE linesUpTo(n - 1) \cup {Append(f, l) : f \in linesUpTo(n - 1), l \in LaterLines}

\* The short source files: none of any line, or a first line and up to
\* MaxLines more
ShortFiles == {<< >>} \cup {<<h>> \o f : h \in FirstLines, f \in linesUpTo(MaxLines)}

\* The line of a long source file at the given place: devices, and among
\* them an excluded name and a line with too few fields
longLine(i) ==
  IF i = 1 THEN csvLine(<<Csv.StandardisedFullName, Csv.eUICC_padded>>)
  ELSE IF i = 3 THEN csvLine(<<Csv.Not_Known_padded, Csv.true>>)
  ELSE IF i = BATCH_SIZE THEN csvLine(<<Csv.x>>)
  ELSE IF i % 2 = 0 THEN csvLine(<<Csv.x, Csv.true>>)
  ELSE csvLine(<<Csv.x, Csv.false>>)

\* The long source files: the padded header, two lines that are not stored,
\* and as many devices as a batch holds, or one more
LongFiles == {[i \in 1..(n + 3) |-> longLine(i)] : n \in {BATCH_SIZE, BATCH_SIZE + 1}}

CsvFiles == ShortFiles \cup LongFiles

\* The script runs without a database file or on the one of an earlier import.
InitImport ==
  /\ dbFile \in {"absent", "present"}
  /\ schema = (IF dbFile = "present" THEN Objects ELSE {})
  /\ corpus = (IF dbFile = "present" THEN <<RowPool[1], RowPool[2]>> ELSE << >>)
  /\ db = "closed"
  /\ pc = "idle"
  /\ req = NoReq
  /\ gsmaData = Null
  /\ matchConfidence = 0
  /\ deducedModel = Null
  /\ eSIMFallback = Null
  /\ androidFingerprint = Null
  /\ iphoneFingerprint = Null
  /\ gsmaMatches = << >>
  /\ finalESIMStatus = Null
  /\ scanData = Null
  /\ scans = << >>
  /\ response = Null
  /\ errors = {}
  /\ served = 0
  /\ call = Null
  /\ ret = Null
  /\ noQueue
  /\ noClient
  /\ csv \in CsvFiles
  /\ importPc = "start"
  /\ lineNumber = 0
  /\ headers = << >>
  /\ batch = << >>
  /\ totalImported = 0

\* What the script leaves alone
server == <<db, pc, req, gsmaData, matchConfidence, deducedModel, eSIMFallback,
            androidFingerprint, iphoneFingerprint, gsmaMatches, finalESIMStatus,
            scanData, scans, response, errors, served, call, ret, queue, client>>

\* Without the source file the script exits with code 1; with it the table
\* is dropped and created again, and reading starts.
ImportStart ==
  /\ importPc = "start"
  /\ \E found \in BOOLEAN :
       IF found
       THEN /\ dbFile' = "present"
            /\ schema' = Objects
            /\ corpus' = << >>
            /\ importPc' = "reading"
       ELSE /\ importPc' = "failed"
            /\ UNCHANGED env
  /\ UNCHANGED <<server, csv, lineNumber, headers, batch, totalImported>>

\* insertMany(batch) and what follows it in the handler of 'line'
flushed(devices) ==
  /\ corpus' = corpus \o devices
  /\ totalImported' = totalImported + Len(devices)
  /\ batch' = << >>

\* rl.on('line'), on the next line of the source
ImportLine ==
  /\ importPc = "reading"
  /\ lineNumber < Len(csv)
  /\ lineNumber' = lineNumber + 1
  /\ LET line == csv[lineNumber + 1]
         device == deviceOf(valuesOf(line), headers)
     IN IF trim(line) = << >>
        THEN UNCHANGED <<headers, batch, totalImported, corpus>>
        ELSE IF lineNumber' = 1
        THEN /\ headers' = headersOf(line)
             /\ UNCHANGED <<batch, totalImported, corpus>>
        ELSE IF Len(valuesOf(line)) # Len(headers) \/ skipped(device)
        THEN UNCHANGED <<headers, batch, totalImported, corpus>>
        ELSE IF Len(batch) + 1 >= BATCH_SIZE
        THEN /\ flushed(Append(batch, device))
             /\ UNCHANGED headers
        ELSE /\ batch' = Append(batch, device)
             /\ UNCHANGED <<headers, totalImported, corpus>>
  /\ UNCHANGED <<server, dbFile, schema, csv, importPc>>

\* rl.on('close'): the remaining devices are inserted and the script exits
\* with code 0.
ImportClose ==
  /\ importPc = "reading"
  /\ lineNumber = Len(csv)
  /\ IF Len(batch) > 0
     THEN /\ corpus' = corpus \o batch
          /\ totalImported' = totalImported + Len(batch)
     ELSE UNCHANGED <<corpus, totalImported>>
  /\ importPc' = "done"
  /\ UNCHANGED <<server, dbFile, schema, csv, lineNumber, headers, batch>>

\* rl.on('error'): reading fails and the script exits with code 1.
ImportError ==
  /\ importPc = "reading"
  /\ importPc' = "failed"
  /\ UNCHANGED <<server, env, csv, lineNumber, headers, batch, totalImported>>

NextImport ==
  \/ ImportStart
  \/ ImportLine
  \/ ImportClose
  \/ ImportError

SpecImport == InitImport /\ [][NextImport]_vars

----------------------------------------------------------------------------
\* public/collector.js

\* Default redirect URL
DEFAULT_REDIRECT_URL == <<"https://google.com">>

\* Values of window.REDIRECT_ID: the id the server wrote into the page, or none
PageIds == {Null, Some("s1"), Some("s2"), Some("s3"), Some("s4"), Some("s5")}

\* window.REDIRECT_ID || 'default'
redirectIdOf(pageId) == IF pageId = Null THEN "default" ELSE Val(pageId)

\* How the POST settles: fetch rejects, or it resolves with a response whose
\* body is no JSON text, or the JSON text null, or an object.  The objects
\* are the two answers of POST /log/:id, a success without redirectUrl, one
\* with an empty redirectUrl, and an object without the success member.
rejected == [settled |-> "rejected"]

fulfilled(isJson, value) == [settled |-> "fulfilled", isJson |-> isJson, value |-> value]

Bodies(id) ==
  {okResponse(id),
   errorResponse,
   [status |-> 200, success |-> TRUE, scanId |-> id],
   [status |-> 200, success |-> TRUE, scanId |-> id, redirectUrl |-> Null],
   [status |-> 200, scanId |-> id]}

Outcomes(id) ==
  {rejected, fulfilled(FALSE, Null), fulfilled(TRUE, Null)}
  \cup {fulfilled(TRUE, Some(b)) : b \in Bodies(id)}

\* result.success
successOf(object) == "success" \in DOMAIN object /\ object.success

\* A variant of the target without the default URL behind it
targetWithoutDefault(object) ==
  IF successOf(object) /\ "redirectUrl" \in DOMAIN object
  THEN object.redirectUrl
  ELSE IF successOf(object) THEN Null ELSE DEFAULT_REDIRECT_URL

\* The URL the page goes to for a parsed object:
\* result.redirectUrl || DEFAULT_REDIRECT_URL on success, the default otherwise
targetOf(object) ==
  IF successOf(object) /\ "redirectUrl" \in DOMAIN object /\ object.redirectUrl # Null
  THEN object.redirectUrl
  ELSE DEFAULT_REDIRECT_URL

\* The page of the collector has been served and its script has not run yet.
InitCollector ==
  /\ dbFile = "absent"
  /\ schema = {}
  /\ corpus = << >>
  /\ db = "closed"
  /\ pc = "idle"
  /\ req = NoReq
  /\ gsmaData = Null
  /\ matchConfidence = 0
  /\ deducedModel = Null
  /\ eSIMFallback = Null
  /\ androidFingerprint = Null
  /\ iphoneFingerprint = Null
  /\ gsmaMatches = << >>
  /\ finalESIMStatus = Null
  /\ scanData = Null
  /\ scans = << >>
  /\ response = Null
  /\ errors = {}
  /\ served = 0
  /\ call = Null
  /\ ret = Null
  /\ noQueue
  /\ noImport
  /\ clientPc = "page"
  /\ \E pageId \in PageIds : redirectId = redirectIdOf(pageId)
  /\ fetched = Null
  /\ parsed = Null
  /\ href = Null
  /\ navigations = 0

\* What the page leaves alone
offPage == <<env, db, pc, req, gsmaData, matchConfidence, deducedModel, eSIMFallback,
             androidFingerprint, iphoneFingerprint, gsmaMatches, finalESIMStatus,
             scanData, scans, response, errors, served, call, ret, queue, importer>>

\* window.location.href = url
navigate(url) ==
  /\ href' = Some(url)
  /\ navigations' = navigations + 1
  /\ clientPc' = "left"

\* sendDataAndRedirect is called, at once or on DOMContentLoaded, and runs
\* to its first await: collectDeviceData reads the screen and the GPU and
\* calls getBatteryInfo, which awaits navigator.getBattery() where the
\* browser has it and returns null where it has not.  What throws on the way
\* ends in the catch block of sendDataAndRedirect.
StartCollector ==
  /\ clientPc = "page"
  /\ \E thrown, supported \in BOOLEAN :
       IF thrown
       THEN navigate(DEFAULT_REDIRECT_URL)
       ELSE /\ clientPc' = (IF supported THEN "battery" ELSE "batteryDone")
            /\ UNCHANGED <<href, navigations>>
  /\ UNCHANGED <<offPage, redirectId, fetched, parsed>>

\* The promise of navigator.getBattery() settles; getBatteryInfo returns the
\* level, or null from its catch block.
BatterySettles ==
  /\ clientPc = "battery"
  /\ clientPc' = "batteryDone"
  /\ UNCHANGED <<offPage, redirectId, fetched, parsed, href, navigations>>

\* After await getBatteryInfo(): getClientHintsData awaits
\* navigator.userAgentData.getHighEntropyValues() where the browser has it
\* and returns null where it has not.
AskHints ==
  /\ clientPc = "batteryDone"
  /\ \E supported \in BOOLEAN : clientPc' = (IF supported THEN "hints" ELSE "hintsDone")
  /\ UNCHANGED <<offPage, redirectId, fetched, parsed, href, navigations>>

\* The promise of getHighEntropyValues() settles; getClientHintsData returns
\* the hints, or null from its catch block.
HintsSettle ==
  /\ clientPc = "hints"
  /\ clientPc' = "hintsDone"
  /\ UNCHANGED <<offPage, redirectId, fetched, parsed, href, navigations>>

\* After await getClientHintsData(): collectDeviceData returns and the POST
\* is sent, or it throws and the catch block navigates.
Collect ==
  /\ clientPc = "hintsDone"
  /\ \E thrown \in BOOLEAN :
       IF thrown
       THEN navigate(DEFAULT_REDIRECT_URL)
       ELSE /\ clientPc' = "posting"
            /\ UNCHANGED <<href, navigations>>
  /\ UNCHANGED <<offPage, redirectId, fetched, parsed>>

\* The promise of fetch settles: it rejects, or it resolves with the
\* response, whose body is still to be read.
Settle ==
  /\ clientPc = "posting"
  /\ \E outcome \in Outcomes(redirectId) : fetched' = Some(outcome)
  /\ clientPc' = "settled"
  /\ UNCHANGED <<offPage, redirectId, parsed, href, navigations>>

\* After await fetch(...): a rejected fetch ends in the catch block; on a
\* response, response.json() is called and awaited.
ReadBody ==
  /\ clientPc = "settled"
  /\ IF Val(fetched).settled = "rejected"
     THEN navigate(DEFAULT_REDIRECT_URL)
     ELSE /\ clientPc' = "reading"
          /\ UNCHANGED <<href, navigations>>
  /\ UNCHANGED <<offPage, redirectId, fetched, parsed>>

\* The promise of response.json() settles: the body has arrived to its end.
BodySettles ==
  /\ clientPc = "reading"
  /\ clientPc' = "read"
  /\ UNCHANGED <<offPage, redirectId, fetched, parsed, href, navigations>>

\* After await response.json(): a body that is no JSON text ends in the
\* catch block.
ParseBody ==
  /\ clientPc = "read"
  /\ IF ~Val(fetched).isJson
     THEN /\ navigate(DEFAULT_REDIRECT_URL)
          /\ UNCHANGED parsed
     ELSE /\ parsed' = Val(fetched).value
          /\ clientPc' = "parsed"
          /\ UNCHANGED <<href, navigations>>
  /\ UNCHANGED <<offPage, redirectId, fetched>>

\* if (result.success) ... else ...; reading a member of null throws and
\* ends in the catch block.
Redirect ==
  /\ clientPc = "parsed"
  /\ IF parsed = Null
     THEN navigate(DEFAULT_REDIRECT_URL)
     ELSE navigate(targetOf(Val(parsed)))
  /\ UNCHANGED <<offPage, redirectId, fetched, parsed>>

NextCollector ==
  \/ StartCollector
  \/ BatterySettles
  \/ AskHints
  \/ HintsSettle
  \/ Collect
  \/ Settle
  \/ ReadBody
  \/ BodySettles
  \/ ParseBody
  \/ Redirect

\* The event loop runs the script of the page, and runs the continuation of
\* an await once its promise has settled.  Whether and when a promise of the
\* browser settles (the battery, the client hints, the POST, the body of its
\* response) is up to the browser, the network and the server: nothing makes
\* these steps happen.
SpecCollector ==
  /\ InitCollector
  /\ [][NextCollector]_vars
  /\ WF_vars(StartCollector)
  /\ WF_vars(AskHints)
  /\ WF_vars(Collect)
  /\ WF_vars(ReadBody)
  /\ WF_vars(ParseBody)
  /\ WF_vars(Redirect)
----------------------------------------------------------------------------
\* Properties

S_Motorola_Edge_50 == <<"M", "o", "t", "o", "r", "o", "l", "a", " ", "E", "d", "g", "e", " ", "5", "0">>

S_Moto_G84 == <<"M", "o", "t", "o", " ", "G", "8", "4">>

\* The handler has gone past the Android tier.
pastAndroid == pc \in {"apple", "iphone", "hints", "advanced", "simple", "final", "done"}

\* The result of the request is complete.
resolved == pc = "done"

\* The function named fn has been applied to the drawn arguments.
applied(fn) == call # Null /\ ret # Null /\ Val(call).fn = fn

\* A fingerprint candidate set that is not unique
nonUnique(fingerprint) == fingerprint # Null /\ ~Val(fingerprint).isUnique

\* C1: isiPhoneESIMCompatible gives false for the single candidate
\* "iPhone X", true for "iPhone XS", true for "iPhone 11", and false for the
\* two candidates "iPhone X", "iPhone XS".
C1_RuleExamples ==
  applied("isiPhoneESIMCompatible") =>
    /\ Val(call).models = <<Sample.iPhone_X>> => Val(ret) = FALSE
    /\ Val(call).models = <<Sample.iPhone_XS>> => Val(ret) = TRUE
    /\ Val(call).models = <<Sample.iPhone_11>> => Val(ret) = TRUE
    /\ Val(call).models = <<Sample.iPhone_X, Sample.iPhone_XS>> => Val(ret) = FALSE

\* The request carries a client-hint model of which the first query or the
\* retry hits a reference record.
hintHits(r) ==
  /\ TruthyStr(r.clientHintsModel)
  /\ \/ hintsLookup(hintsSearchTerm(r)) # Null
     \/ hintsLookup(r.clientHintsModel) # Null

\* The brand or model signals are Apple's and the geometry is that of a bucket.
appleGeometry(r) ==
  /\ appleGuard(r, Null)
  /\ identifyiPhoneModel(r.screenWidth, r.screenHeight, r.pixelRatio, r.gpuRenderer,
                         r.hardwareConcurrency) # Null

\* C2: when a client-hint model is present and its query hits a reference
\* record, and the signals also match an Apple geometry bucket, the result is
\* the Client Hints result: the record that query found, at confidence 90 or 85.
C2_ClientHintsWin ==
  (resolved /\ androidFingerprint = Null /\ hintHits(req) /\ appleGeometry(req)) =>
    /\ matchConfidence \in {90, 85}
    /\ gsmaData = orElse(hintsLookup(hintsSearchTerm(req)),
                         hintsLookup(req.clientHintsModel))

\* Every candidate of the Apple bucket has a hit and the hits do not all
\* carry the same eSIM flag.
hitsDisagree ==
  /\ iphoneFingerprint # Null
  /\ Len(gsmaMatches) = Len(Val(iphoneFingerprint).models)
  /\ ~allAgree(gsmaMatches)

\* C3: when every candidate of the Apple bucket has a hit and the hits
\* disagree on the eSIM flag, the final verdict is the value of the rule
\* applied to the candidate list, whatever flag the first hit carries.
C3_DisagreementUsesRule ==
  (resolved /\ hitsDisagree) =>
    finalESIMStatus = Some(isiPhoneESIMCompatible(Val(iphoneFingerprint).models))

\* The Android tier resolved a candidate set of which no candidate hits the
\* corpus.
androidNoHit ==
  /\ androidFingerprint # Null
  /\ firstHit(androidLookups(Val(androidFingerprint).models)) = Null

\* C4: the cascade halts once a tier produced a result; when the Android tier
\* resolves a candidate set of which no candidate hits the corpus, the final
\* result has no matched record and confidence 50, whatever brand and model
\* let the tier fire.
C4_AndroidNoHitIsFinal ==
  (resolved /\ androidNoHit) => (gsmaData = Null /\ matchConfidence = 50)

\* C5: with brand and model absent, renderer "Adreno (TM) 710", width 432 and
\* no height, the Android tier resolves a candidate set whose display name
\* mentions "Motorola Edge 50" and "Moto G84".
C5_HeightOptional ==
  (/\ pastAndroid
   /\ req.deviceBrand = Null /\ req.deviceModel = Null
   /\ req.gpuRenderer = Sample.Adreno_710
   /\ req.screenWidth = Some(432) /\ req.screenHeight = Null) =>
    /\ androidFingerprint # Null
    /\ includes(Val(androidFingerprint).displayName, S_Motorola_Edge_50)
    /\ includes(Val(androidFingerprint).displayName, S_Moto_G84)

\* The request of the Apple example: brand "Apple", masked model, 390x844@3.
appleExample(r) ==
  /\ r.deviceBrand = Sample.Apple
  /\ r.deviceModel = Lit.K
  /\ r.screenWidth = Some(390)
  /\ r.screenHeight = Some(844)
  /\ r.pixelRatio = Some(30)

\* Every candidate of the Apple bucket has a hit and the hits carry the same
\* eSIM flag.
hitsAgree ==
  /\ iphoneFingerprint # Null
  /\ Len(gsmaMatches) = Len(Val(iphoneFingerprint).models)
  /\ allAgree(gsmaMatches)

\* C6, as stated: for brand "Apple", masked model and 390x844@3, when the hits
\* of all four candidates carry the same eSIM flag, the verdict is that flag
\* and the confidence is 100.
C6_AgreementAt100 ==
  (resolved /\ appleExample(req) /\ hitsAgree) =>
    /\ finalESIMStatus = Some(euiccFlag(gsmaMatches[1]))
    /\ matchConfidence = 100

\* C6, amended: for brand "Apple", masked model and 390x844@3, when the hits
\* of all four candidates carry the same eSIM flag, the verdict is that flag
\* and the confidence is 50.
C6_AgreementAt50 ==
  (resolved /\ appleExample(req) /\ hitsAgree) =>
    /\ Len(gsmaMatches) = 4
    /\ finalESIMStatus = Some(euiccFlag(gsmaMatches[1]))
    /\ matchConfidence = 50

\* The four hits of the Apple example share the flag false, taken from the
\* corpus, and the result is complete.
C6_Witness ==
  /\ resolved /\ appleExample(req) /\ hitsAgree
  /\ Len(gsmaMatches) = 4
  /\ ~euiccFlag(gsmaMatches[1])
  /\ finalESIMStatus = Some(FALSE)
  /\ matchConfidence = 50

\* C7: a result that carries a fingerprint candidate set, Android or Apple,
\* whose isUnique is false has a final confidence of at most 50.
C7_NonUniqueCappedAt50 ==
  (resolved /\ (nonUnique(androidFingerprint) \/ nonUnique(iphoneFingerprint))) =>
    matchConfidence <= 50

\* The Client Hints step ran for the request: neither fingerprint tier
\* resolved anything and a client-hint model is present.
hintsRan == androidFingerprint = Null /\ iphoneFingerprint = Null
            /\ TruthyStr(req.clientHintsModel)

\* The step's first query hit; it missed and the retry with the model alone hit.
hintsFirstHit == hintsLookup(hintsSearchTerm(req)) # Null

hintsRetryHit == ~hintsFirstHit /\ hintsLookup(req.clientHintsModel) # Null

\* The Client Hints step is taken for the request, and no import writes to
\* the store while its queries run.
hintsTaken ==
  /\ pc = "hints" /\ pc' = "advanced" /\ hintsRan
  /\ corpus' = corpus /\ dbFile' = dbFile

\* C8, as stated: a hit of the query of brand with model gets confidence 90;
\* a hit of a query of the model alone gets 85, also when no client-hint
\* brand is present.
C8_ModelAloneAt85 ==
  [][hintsTaken =>
       /\ (TruthyStr(req.clientHintsBrand) /\ hintsFirstHit) => matchConfidence' = 90
       /\ (~TruthyStr(req.clientHintsBrand) /\ hintsFirstHit) => matchConfidence' = 85
       /\ hintsRetryHit => matchConfidence' = 85]_vars

\* C8, amended: a hit of the step's first query (brand with model, or the
\* model alone when no client-hint brand is present) gets confidence 90; a
\* hit of the retry with the model alone, made after the first query missed,
\* gets 85; the later steps leave the record and its confidence alone.
C8_FirstQueryAt90 ==
  /\ [][hintsTaken =>
           LET first == hintsLookup(hintsSearchTerm(req))
               retry == hintsLookup(req.clientHintsModel)
           IN  IF first # Null
               THEN matchConfidence' = 90 /\ gsmaData' = first
               ELSE retry # Null => (matchConfidence' = 85 /\ gsmaData' = retry)]_vars
  /\ [][(pc \in {"advanced", "simple", "final"} /\ gsmaData # Null) =>
           (gsmaData' = gsmaData /\ matchConfidence' = matchConfidence)]_vars

\* The query of brand with model missed and the retry with the model alone
\* hit, at confidence 85.
C8_Witness ==
  /\ resolved /\ hintsRan
  /\ importPc = "off"
  /\ TruthyStr(req.clientHintsBrand)
  /\ hintsRetryHit
  /\ matchConfidence = 85

\* C9: the stored isResolutionBased is true in every result whose identity
\* came from a non-unique fingerprint bucket, Android or Apple.
C9_ResolutionBasedFlag ==
  (resolved /\ (nonUnique(androidFingerprint) \/ nonUnique(iphoneFingerprint))) =>
    Val(scanData).isResolutionBased

\* The entries of the geometry table with the given width and height and a
\* ratio among ratios
bucketsOf(w, h, ratios) ==
  SelectSeq(iphoneMap, LAMBDA entry : /\ w = Some(entry.width)
                                      /\ h = Some(entry.height)
                                      /\ entry.ratio \in ratios)

\* What the claim requires of the returned value, given the buckets the
\* arguments fall in: none without a bucket, else the bucket's candidates in
\* table order, unique iff there is one.
returnsBucket(buckets, returned) ==
  IF buckets = << >> THEN returned = Null
  ELSE /\ returned # Null
       /\ Val(returned).models = buckets[1].models
       /\ Val(returned).isUnique = (Len(buckets[1].models) = 1)

\* The whole numbers a ratio in tenths is equal to; those it rounds to.
wholeOf(ratio10) == {n \in 0..9 : ratio10 = Some(10 * n)}

roundedOf(ratio10) ==
  {n \in 0..9 : ratio10 # Null /\ 10 * n - 5 <= Val(ratio10) /\ Val(ratio10) < 10 * n + 5}

\* C10, as stated: for the six documented triples identifyiPhoneModel returns
\* the bucket's candidates in table order, unique iff one; for every other
\* triple, and with a width, height or ratio missing, it returns none.
C10_ExactTriples ==
  applied("identifyiPhoneModel") =>
    returnsBucket(bucketsOf(Val(call).screenWidth, Val(call).screenHeight,
                            wholeOf(Val(call).pixelRatio)),
                  Val(ret))

\* C10, amended: the same, a triple being taken with its ratio rounded to the
\* nearest integer.
C10_RoundedTriples ==
  applied("identifyiPhoneModel") =>
    returnsBucket(bucketsOf(Val(call).screenWidth, Val(call).screenHeight,
                            roundedOf(Val(call).pixelRatio)),
                  Val(ret))

\* A documented width and height with ratio 2.6 returned the bucket of ratio 3.
C10_Witness ==
  /\ applied("identifyiPhoneModel")
  /\ Val(call).screenWidth = Some(390)
  /\ Val(call).screenHeight = Some(844)
  /\ Val(call).pixelRatio = Some(26)
  /\ Val(ret) # Null
  /\ Len(Val(Val(ret)).models) = 4


----------------------------------------------------------------------------
\* Properties of the display labels, the matchers and the later steps

\* The generation word of a candidate name: the word after "iPhone".
generationOf(model) == IF Len(splitWs(model)) >= 2 THEN splitWs(model)[2] ELSE << >>

isNumeral(word) == word # << >> /\ \A i \in 1..Len(word) : word[i] \in DigitSet

generationsOf(models) == {generationOf(models[i]) : i \in 1..Len(models)}

numericGenerationsOf(models) ==
  {parseInt(g) : g \in {w \in generationsOf(models) : isNumeral(w)}}

smallest(S) == CHOOSE n \in S : \A m \in S : n <= m

largest(S) == CHOOSE n \in S : \A m \in S : n >= m

\* The label is that of a span, "iPhone Min / Max ...".
namesSpan(label, lo, hi) ==
  OccursAt(label, 1, Lit.iPhoneSp \o numToString(lo) \o Lit.Slash \o numToString(hi))

\* The label is that of a single generation, "iPhone N ..." without a span.
namesSingle(label, n) ==
  /\ OccursAt(label, 1, Lit.iPhoneSp \o numToString(n))
  /\ ~includes(label, Lit.Slash)

\* What the claim requires of the label of a candidate list with numeric
\* generations gens among all its generations all.
labelBounds(label, all, gens) ==
  IF Cardinality(all) = 1
  THEN namesSingle(label, smallest(gens))
  ELSE namesSpan(label, smallest(gens), largest(gens))

\* identifyiPhoneModel returned a candidate set that is not unique.
returnedNonUnique ==
  /\ applied("identifyiPhoneModel")
  /\ Val(ret) # Null
  /\ ~Val(Val(ret)).isUnique

\* C11: for every non-unique bucket the display label names the smallest and
\* the largest numeric generation among the candidates, "iPhone Min / Max ...
\* Series", and names a single generation only when all candidates share one
\* generation.
C11_LabelSpansGenerations ==
  (returnedNonUnique /\ numericGenerationsOf(Val(Val(ret)).models) # {}) =>
    labelBounds(Val(Val(ret)).displayName,
                generationsOf(Val(Val(ret)).models),
                numericGenerationsOf(Val(Val(ret)).models))

\* The claim's test of one table entry: the trimmed, case-folded renderer
\* contains the entry's GPU string and the width and the height are each
\* within 2 pixels of the entry's.
entryFits(entry, gpuRenderer, screenWidth, screenHeight) ==
  /\ gpuRenderer # Null
  /\ includes(toLowerCase(trim(gpuRenderer)), entry.gpu)
  /\ screenWidth # Null
  /\ Val(screenWidth) \in (entry.width - 2)..(entry.width + 2)
  /\ screenHeight # Null
  /\ Val(screenHeight) \in (entry.height - 2)..(entry.height + 2)

fittingEntries(gpuRenderer, screenWidth, screenHeight) ==
  {i \in 1..Len(androidFingerprints) :
     entryFits(androidFingerprints[i], gpuRenderer, screenWidth, screenHeight)}

\* The returned value is the candidate set of the first of the entries, or
\* none when there is no entry.
returnsFirstOf(fitting, returned) ==
  IF fitting = {} THEN returned = Null
  ELSE /\ returned # Null
       /\ Val(returned).models = androidFingerprints[smallest(fitting)].models
       /\ Val(returned).displayName = androidFingerprints[smallest(fitting)].displayName

\* C12: identifyAndroidByGPU matches a table entry iff the trimmed,
\* case-folded renderer contains the entry's GPU string and the width and the
\* height are each within 2 pixels of the entry's; it returns the candidate
\* set of the first matching entry in table order, and none when no entry
\* matches.
C12_FirstFittingEntry ==
  applied("identifyAndroidByGPU") =>
    returnsFirstOf(fittingEntries(Val(call).gpuRenderer, Val(call).screenWidth,
                                  Val(call).screenHeight),
                   Val(ret))

\* A renderer naming two GPUs of the table, in mixed case and padded, with a
\* width two pixels off: entries 2 and 4 fit and the set of entry 2 came back.
C12_Witness ==
  /\ applied("identifyAndroidByGPU")
  /\ Val(call).gpuRenderer = Sample.ANGLE_Adreno_740_Mali_G710
  /\ Val(call).screenWidth = Some(414)
  /\ Val(call).screenHeight = Some(915)
  /\ fittingEntries(Val(call).gpuRenderer, Val(call).screenWidth,
                    Val(call).screenHeight) = {2, 4}
  /\ Val(ret) # Null
  /\ Val(Val(ret)).models = androidFingerprints[2].models

\* A matcher function has been applied.
matcherApplied == call # Null /\ ret # Null /\ Val(call).fn \in MatcherFunctions

\* The store cannot answer the call: no file, no rows, statements that raise,
\* or a file that cannot be opened and no handle from before.
storeUnavailable ==
  \/ dbFile = "absent"
  \/ corpus = << >>
  \/ Val(call).fault = "store"
  \/ Val(call).fault = "open" /\ db = "closed"

\* none, or the empty list of searchDevices
noMatchOf(fn) == IF fn = "searchDevices" THEN << >> ELSE Null

\* C13: in every state of the corpus (no file, a file without rows, a file
\* appearing while the server runs, loaded, statements raising a fault)
\* searchDevice and advancedDeviceMatch return none and searchDevices returns
\* the empty list instead of raising, for every string argument, so that the
\* caller goes on to its next step.
C13_NoMatchInsteadOfRaising ==
  matcherApplied =>
    /\ ~Val(ret).raised
    /\ storeUnavailable => Val(ret).value = noMatchOf(Val(call).fn)

\* A term that has a row was searched on an opened store whose statements
\* raise: the call returned none.
C13_Witness ==
  /\ matcherApplied
  /\ Val(call).fn = "searchDevice"
  /\ Val(call).fault = "store"
  /\ Val(call).searchTerm = Terms.exact
  /\ \E i \in 1..Len(corpus) : corpus[i].standardised_full_name = Sample.Google_Pixel_7
  /\ db = "open"
  /\ ~Val(ret).raised
  /\ Val(ret).value = Null

\* searchDevice has been applied to a term that is not blank on a store that
\* answers.
searched ==
  /\ matcherApplied
  /\ Val(call).fn = "searchDevice"
  /\ ~storeUnavailable
  /\ Val(call).searchTerm # Null
  /\ trim(Val(call).searchTerm) # << >>

\* Rows whose full name equals the term, and rows whose full name contains
\* it, without regard to case.
rowsEqualTo(rows, term) ==
  {i \in 1..Len(rows) : toLowerCase(rows[i].standardised_full_name) = toLowerCase(term)}

rowsContaining(rows, term) ==
  {i \in 1..Len(rows) : includes(toLowerCase(rows[i].standardised_full_name), toLowerCase(term))}

\* The returned record is one of the rows.
returnedRow(returned, rows, indices) ==
  /\ returned # Null
  /\ \E i \in indices : Val(returned) = rows[i]

\* What the claim requires of the record returned for a trimmed term.
exactBeforeSubstring(returned, rows, cleanTerm) ==
  IF rowsEqualTo(rows, cleanTerm) # {}
  THEN returnedRow(returned, rows, rowsEqualTo(rows, cleanTerm))
  ELSE rowsContaining(rows, cleanTerm) # {} =>
         returnedRow(returned, rows, rowsContaining(rows, cleanTerm))

\* C14: searchDevice applies its stages in order: if some stored full name
\* equals the trimmed term case-insensitively, the returned record's full
\* name equals the term case-insensitively; only when no such record exists
\* is a record returned whose full name merely contains the term.
C14_ExactBeforeSubstring ==
  searched => exactBeforeSubstring(Val(ret).value, corpus, trim(Val(call).searchTerm))

\* "google pixel 7" was searched in a table whose first row, "Google Pixel 7
\* Pro", contains the term and whose second row equals it: the second row
\* came back.
C14_Witness ==
  /\ searched
  /\ Val(call).searchTerm = Terms.exact
  /\ Len(corpus) = 2
  /\ corpus[1].standardised_full_name = Sample.Google_Pixel_7_Pro
  /\ corpus[2].standardised_full_name = Sample.Google_Pixel_7
  /\ Val(ret).value = Some(corpus[2])

\* Rows a substring query of the term finds.  The query is the LIKE query of
\* the matcher, in which % and _ of the term stand for any characters.
rowsFoundBy(rows, term) ==
  {i \in 1..Len(rows) : likeContains(rows[i].standardised_full_name, term)}

\* The tokens of the claim: the words of more than two characters, in order.
longTokens(cleanTerm) ==
  [k \in {j \in 1..Len(splitWs(cleanTerm)) : Len(splitWs(cleanTerm)[j]) > 2} |->
     splitWs(cleanTerm)[k]]

\* The positions of the tokens whose query finds a row
hittingTokens(rows, tokens) == {k \in DOMAIN tokens : rowsFoundBy(rows, tokens[k]) # {}}

\* What the claim requires when the first two stages have failed.
tokenStage(returned, rows, cleanTerm, tokens) ==
  IF Len(cleanTerm) > 3 /\ hittingTokens(rows, tokens) # {}
  THEN returned =
         Some(rows[smallest(rowsFoundBy(rows, tokens[smallest(hittingTokens(rows, tokens))]))])
  ELSE returned = Null

\* C15: when the exact and the substring stage of searchDevice both fail and
\* the trimmed term is longer than 3 characters, each whitespace-separated
\* token longer than 2 characters is probed as a substring query in term
\* order and the hit of the first token that matches is returned; tokens of 1
\* or 2 characters are never probed, and a term of at most 3 characters gets
\* no token stage.
C15_TokenStage ==
  (/\ searched
   /\ rowsEqualTo(corpus, trim(Val(call).searchTerm)) = {}
   /\ rowsFoundBy(corpus, trim(Val(call).searchTerm)) = {}) =>
    tokenStage(Val(ret).value, corpus, trim(Val(call).searchTerm),
               longTokens(trim(Val(call).searchTerm)))

\* "zz 12 Nokia" was searched in the table "Apple iPhone 12", "Nokia G22":
\* the word "12" is part of the first name and was not probed, and the row
\* of "Nokia" came back.
C15_Witness ==
  /\ searched
  /\ Val(call).searchTerm = Terms.shortWord
  /\ Len(corpus) = 2
  /\ corpus[1].standardised_full_name = Sample.Apple_iPhone_12
  /\ corpus[2].standardised_full_name = Sample.Nokia_G22
  /\ rowsFoundBy(corpus, splitWs(Terms.shortWord)[2]) = {1}
  /\ Val(ret).value = Some(corpus[2])

\* advancedDeviceMatch has been applied on a store that answers.
advancedApplied ==
  /\ matcherApplied
  /\ Val(call).fn = "advancedDeviceMatch"
  /\ ~storeUnavailable

\* The first of the rows a substring query finds, or none
firstFoundBy(rows, term) ==
  IF rowsFoundBy(rows, term) = {} THEN Null ELSE Some(rows[smallest(rowsFoundBy(rows, term))])

\* The record the claim describes: the first candidate of the query of brand
\* with model, else the first candidate of the query of the model alone.
advancedExpected(rows, brand, model) ==
  IF model = Null THEN Null
  ELSE IF brand # Null /\ firstFoundBy(rows, brand \o Lit.Space \o model) # Null
  THEN firstFoundBy(rows, brand \o Lit.Space \o model)
  ELSE firstFoundBy(rows, model)

\* The values of screenWidth, screenHeight and gpuRenderer a call may differ in
OtherGeometries ==
  {<<Null, Null, Null>>, <<Some(432), Some(984), Sample.Adreno_710>>,
   <<Some(390), Some(844), Sample.Apple_GPU>>}

\* C16: advancedDeviceMatch queries brand with model as a substring, retries
\* with the model alone when that yields no candidate, and returns the first
\* candidate unchanged; a call that differs only in screenWidth, screenHeight
\* or gpuRenderer returns the same record.
C16_AdvancedIgnoresGeometry ==
  advancedApplied =>
    /\ Val(ret).value = advancedExpected(corpus, Val(call).brand, Val(call).model)
    /\ \A g \in OtherGeometries :
         advancedDeviceMatch(db, dbFile, corpus, Val(call).fault, Val(call).brand,
                             Val(call).model, g[1], g[2], g[3]) = Val(ret)

\* Brand "Samsung" with model "Pixel 7" and a geometry: no name contains
\* "Samsung Pixel 7", and the first row containing "Pixel 7" came back.
C16_Witness ==
  /\ advancedApplied
  /\ Val(call).brand = Sample.Samsung
  /\ Val(call).model = Sample.Pixel_7
  /\ Val(call).screenWidth = Some(432)
  /\ Len(corpus) = 2
  /\ corpus[1].standardised_full_name = Sample.Nokia_G22
  /\ corpus[2].standardised_full_name = Sample.Google_Pixel_7_Pro
  /\ Val(ret).value = Some(corpus[2])

\* No tier produced anything: no fingerprint was resolved and no search hit.
noTierHit == gsmaData = Null /\ androidFingerprint = Null /\ iphoneFingerprint = Null

\* Every signal of the request is absent.
allAbsent(r) ==
  /\ r.deviceBrand = Null /\ r.deviceModel = Null
  /\ r.screenWidth = Null /\ r.screenHeight = Null /\ r.pixelRatio = Null
  /\ r.gpuRenderer = Null /\ r.hardwareConcurrency = Null
  /\ r.clientHintsModel = Null /\ r.clientHintsBrand = Null

\* The result, as computed and as handed to the scan store, has no matched
\* record, confidence 0 and no eSIM verdict.
emptyResult(data, confidence, status, stored) ==
  /\ data = Null /\ confidence = 0 /\ status = Null
  /\ stored.gsmaData = Null /\ stored.matchConfidence = 0 /\ stored.eSIMCompatible = Null

\* C17: when no tier produces a hit, and in particular when every signal is
\* absent, the result has no matched record, confidence 0 and an unknown
\* (null) eSIM verdict.
C17_NoHitIsEmptyResult ==
  resolved =>
    /\ allAbsent(req) => noTierHit
    /\ noTierHit => emptyResult(gsmaData, matchConfidence, finalESIMStatus, Val(scanData))

\* A request without any signal has been resolved on a store with rows.
C17_Witness ==
  /\ resolved
  /\ allAbsent(req)
  /\ Len(corpus) > 0
  /\ emptyResult(gsmaData, matchConfidence, finalESIMStatus, Val(scanData))

\* The term of the claim: brand with model, else the model, else the brand.
tierTerm(brand, model) ==
  IF brand # Null /\ model # Null THEN brand \o Lit.Space \o model
  ELSE IF model # Null THEN model
  ELSE brand

\* What the claim requires of the step, given the hit of the term and the hit
\* of the model alone (none where there is nothing to search).
simpleOutcome(first, second) ==
  IF first # Null THEN gsmaData' = first /\ matchConfidence' = 70
  ELSE IF second # Null THEN gsmaData' = second /\ matchConfidence' = 50
  ELSE gsmaData' = Null /\ matchConfidence' = matchConfidence

lookupOrNone(term) == IF term = Null THEN Null ELSE searchGSMADevice(term)

\* C18: the simple search step searches with brand and model when both are
\* present, else the model, else the brand; a hit on that term gets
\* confidence 70; if it misses and a model is present, the model alone is
\* searched and a hit gets confidence 50; with neither brand nor model no
\* search is made.  The searches are those of a store no import writes to
\* while they run.
C18_SimpleSearchTier ==
  [][(pc = "simple" /\ pc' = "final" /\ gsmaData = Null
      /\ corpus' = corpus /\ dbFile' = dbFile) =>
       simpleOutcome(lookupOrNone(tierTerm(req.deviceBrand, req.deviceModel)),
                     lookupOrNone(req.deviceModel))]_vars

\* Brand "Apple" with the masked model "K": the search of "Apple K" missed,
\* the search of "K" found "Nokia G22", and the confidence is 50.
C18_Witness ==
  /\ resolved
  /\ req.deviceBrand = Sample.Apple
  /\ req.deviceModel = Lit.K
  /\ searchGSMADevice(tierTerm(req.deviceBrand, req.deviceModel)) = Null
  /\ gsmaData # Null
  /\ Val(gsmaData).standardised_full_name = Sample.Nokia_G22
  /\ matchConfidence = 50

\* The Apple tier has just run and produced a result.
appleTierResult == pc = "hints" /\ iphoneFingerprint # Null

\* A fingerprint that was not refined and is unique iff it has one candidate
unrefined(fingerprint) ==
  /\ fingerprint.refinedModel = Null
  /\ fingerprint.isUnique = (Len(fingerprint.models) = 1)

\* The fingerprints identifyiPhoneModel returns for the six buckets, with and
\* without a renderer and a core count
bucketFingerprints ==
  {identifyiPhoneModel(Some(iphoneMap[i].width), Some(iphoneMap[i].height),
                       Some(10 * iphoneMap[i].ratio), g, c) :
     i \in 1..Len(iphoneMap), g \in {Null, Sample.Apple_GPU}, c \in Cores}

\* C19: refineiPhoneModel returns none for every input, so isUnique of
\* identifyiPhoneModel is true iff the candidate list has exactly one
\* element; the confidence of the Apple tier is 100 when isUnique is true and
\* 50 otherwise, which for the six buckets is 50 in every call where the tier
\* produces a result.
C19_AppleTierAt50 ==
  appleTierResult =>
    /\ unrefined(Val(iphoneFingerprint))
    /\ matchConfidence = 50
    /\ \A fp \in bucketFingerprints :
         /\ fp # Null
         /\ unrefined(Val(fp))
         /\ \A found \in BOOLEAN : appleConfidence(Val(fp), found) = 50

\* The tier ran with a renderer reported, found rows for its candidates and
\* left confidence 50.
C19_Witness ==
  /\ appleTierResult
  /\ req.gpuRenderer # Null
  /\ Len(Val(iphoneFingerprint).models) = 4
  /\ gsmaMatches # << >>
  /\ matchConfidence = 50

\* The resolution as a function of the corpus and the signals of one call.
\* Its lookups use a handle of their own, and nothing of it reads the scan
\* store or what an earlier call left.
freshLookup(term) ==
  IF term = Null THEN Null ELSE searchDevice("closed", dbFile, corpus, "none", term).value

freshOrStatic(term) == orElse(freshLookup(term), searchGSMADeviceFallback(term))

NothingYet ==
  [data |-> Null, conf |-> 0, deduced |-> Null, fallback |-> Null,
   aFp |-> Null, iFp |-> Null, matches |-> << >>]

withAndroid(s, fp, hit) ==
  [s EXCEPT !.aFp = fp, !.deduced = Val(fp).displayName, !.data = hit,
            !.conf = androidConfidence(Val(fp), hit # Null)]

androidOf(s, fp) ==
  IF fp = Null THEN s
  ELSE withAndroid(s, fp, firstHit([i \in 1..Len(Val(fp).models) |->
                                      freshLookup(Val(fp).models[i])]))

withApple(s, fp, matches) ==
  [s EXCEPT !.iFp = fp, !.deduced = Val(fp).displayName, !.matches = matches,
            !.data = IF matches # << >> THEN Some(matches[1]) ELSE s.data,
            !.fallback = appleFallback(Val(fp), matches, s.fallback),
            !.conf = appleConfidence(Val(fp), matches # << >>)]

appleOf(s, fp) ==
  IF fp = Null THEN s
  ELSE withApple(s, fp, collectHits([i \in 1..Len(Val(fp).models) |->
                                       freshOrStatic(Val(fp).models[i])]))

withHit(s, hit, conf, named) ==
  IF hit = Null THEN s
  ELSE [s EXCEPT !.data = hit, !.conf = conf,
                 !.deduced = IF named THEN Val(hit).standardised_full_name ELSE s.deduced]

twoQueries(s, first, second, conf1, conf2, named) ==
  IF first # Null THEN withHit(s, first, conf1, named) ELSE withHit(s, second, conf2, named)

afterAndroid(r) ==
  androidOf(NothingYet,
            IF androidGuard(r)
            THEN identifyAndroidByGPU(r.gpuRenderer, r.screenWidth, r.screenHeight)
            ELSE Null)

afterApple(s, r) ==
  appleOf(s, IF appleGuard(r, s.aFp)
             THEN identifyiPhoneModel(r.screenWidth, r.screenHeight, r.pixelRatio,
                                      r.gpuRenderer, r.hardwareConcurrency)
             ELSE Null)

afterHints(s, r) ==
  IF ~hintsGuard(r, s.data, s.aFp, s.iFp) THEN s
  ELSE twoQueries(s, freshOrStatic(hintsSearchTerm(r)), freshOrStatic(r.clientHintsModel),
                  90, 85, TRUE)

afterAdvanced(s, r) ==
  IF ~advancedGuard(r, s.data, s.aFp, s.iFp) THEN s
  ELSE withHit(s, advancedDeviceMatch("closed", dbFile, corpus, "none", r.deviceBrand,
                                      r.deviceModel, r.screenWidth, r.screenHeight,
                                      r.gpuRenderer).value,
               85, FALSE)

afterSimple(s, r) ==
  IF s.data # Null \/ simpleSearchTerm(r) = Null THEN s
  ELSE twoQueries(s, freshLookup(simpleSearchTerm(r)), freshLookup(r.deviceModel),
                  70, 50, FALSE)

resolutionOf(r) ==
  afterSimple(afterAdvanced(afterHints(afterApple(afterAndroid(r), r), r), r), r)

\* The result of the call is the one the function gives.
resultIs(s) ==
  /\ gsmaData = s.data
  /\ matchConfidence = s.conf
  /\ deducedModel = s.deduced
  /\ finalESIMStatus = finalStatus(s.iFp, s.matches, s.data, s.fallback)

----------------------------------------------------------------------------
\* The order of the fingerprint tiers

\* The handler is at the attempt of the Apple tier: identifyiPhoneModel is
\* about to be called for the request.
appleAttempted == pc = "iphone"

\* C22, as stated: the Apple Fingerprint Tier is attempted only in calls
\* where the Android tier's firing condition did not hold (brand or model
\* absent or model "K", with a GPU string and a screen width).
C22_NotAfterAndroidCondition == appleAttempted => ~androidGuard(req)

\* C22, amended: the Apple Fingerprint Tier is attempted only in calls where
\* the Android tier resolved no candidate set, whether its firing condition
\* did not hold or the Android GPU resolver returned none; a result that
\* carries an Apple candidate set carries no Android one.
C22_NotAfterAndroidResult ==
  /\ appleAttempted => androidFingerprint = Null
  /\ (pc \in {"hints", "advanced", "simple", "final", "done"} /\ iphoneFingerprint # Null)
       => androidFingerprint = Null

\* The Android condition held, its resolver returned none, and the Apple
\* tier is attempted.
C22_Witness == appleAttempted /\ androidGuard(req) /\ androidFingerprint = Null

----------------------------------------------------------------------------
\* The pixel ratio of the Apple resolution resolver

\* The width and height of the call are those of a table entry.
documentedSize ==
  \E i \in 1..Len(iphoneMap) :
    /\ Val(call).screenWidth = Some(iphoneMap[i].width)
    /\ Val(call).screenHeight = Some(iphoneMap[i].height)

\* A ratio in tenths that rounds to 3: from 2.5 up to but excluding 3.5
roundsTo3(ratio10) == ratio10 # Null /\ 25 <= Val(ratio10) /\ Val(ratio10) < 35

\* What the resolver returns for the size and hardware of the call at ratio 3
atRatio3 ==
  identifyiPhoneModel(Val(call).screenWidth, Val(call).screenHeight, Some(30),
                      Val(call).gpuRenderer, Val(call).hardwareConcurrency)

\* C23: for a documented width and height, identifyiPhoneModel returns for
\* every pixel ratio that rounds to 3 what it returns for ratio 3, which is a
\* bucket, and returns none for every ratio that rounds to another integer.
C23_RatioOnlyRounded ==
  (applied("identifyiPhoneModel") /\ documentedSize /\ Val(call).pixelRatio # Null) =>
    /\ atRatio3 # Null
    /\ IF roundsTo3(Val(call).pixelRatio) THEN Val(ret) = atRatio3 ELSE Val(ret) = Null

\* A documented size was resolved at ratio 2.5, the lowest that rounds to 3.
C23_Witness ==
  /\ applied("identifyiPhoneModel")
  /\ documentedSize
  /\ Val(call).pixelRatio = Some(25)
  /\ Val(ret) # Null

----------------------------------------------------------------------------
\* The hits of the Apple tier

\* The Apple tier resolved a candidate set for the request being handled.
appleSetResolved ==
  pc \in {"hints", "advanced", "simple", "final", "done"} /\ iphoneFingerprint # Null

\* The corpus cannot answer: no database file, or no rows in it.
corpusUnavailable == dbFile = "absent" \/ corpus = << >>

\* Every candidate is the name, or a part of the name, of an entry of the
\* static list, or has such a name as a part.
inStaticList(model) ==
  \E i \in 1..Len(TOP_ESIM_DEVICES) :
    \/ includes(toLowerCase(model), toLowerCase(TOP_ESIM_DEVICES[i].deviceName))
    \/ includes(toLowerCase(TOP_ESIM_DEVICES[i].deviceName), toLowerCase(model))

\* C29: in the Apple Fingerprint Tier every candidate of every bucket has a
\* hit, from the corpus or else from the static list ("iPhone X" by the entry
\* "iPhone XS"): the hits are as many as the candidates, eSIMFallback stays
\* none at every point of every call, and with the corpus unavailable the
\* verdict is true for every bucket.
C29_EveryCandidateHit ==
  /\ eSIMFallback = Null
  /\ pc = "hints" /\ iphoneFingerprint # Null =>
       /\ \A k \in 1..Len(Val(iphoneFingerprint).models) :
            inStaticList(Val(iphoneFingerprint).models[k])
       /\ Val(iphoneFingerprint).models[1] = Sample.iPhone_X =>
            searchGSMADeviceFallback(Sample.iPhone_X) =
              Some([standardised_full_name |-> Sample.iPhone_XS, euicc |-> "true"])
  /\ appleSetResolved =>
       /\ Len(gsmaMatches) = Len(Val(iphoneFingerprint).models)
       /\ gsmaData = Some(gsmaMatches[1])
  /\ (resolved /\ iphoneFingerprint # Null /\ corpusUnavailable) =>
       /\ finalESIMStatus = Some(TRUE)
       /\ Val(scanData).eSIMCompatible = Some(TRUE)
       /\ Val(scanData).eSIMFallback = Null

\* The bucket of "iPhone X" was resolved without a corpus and stored with
\* the verdict true.
C29_Witness ==
  /\ pc = "idle"
  /\ dbFile = "absent"
  /\ \E i \in 1..Len(scans) :
       /\ scans[i].iphoneFingerprint # Null
       /\ Val(scans[i].iphoneFingerprint).models[1] = Sample.iPhone_X
       /\ scans[i].eSIMCompatible = Some(TRUE)
       /\ scans[i].eSIMFallback = Null

----------------------------------------------------------------------------
\* Verdict, matched record and confidence of a result

\* The verdict of a record is unknown exactly when it has no matched record.
verdictIffRecord(record) == (record.eSIMCompatible = Null) <=> (record.gsmaData = Null)

\* C30: in every stored result the eSIM verdict is unknown iff the matched
\* record is none; a result of the Android fingerprint without a matched
\* record has confidence 50 and an unknown verdict; and the confidence is 0
\* iff the matched record is none and neither resolver produced a candidate
\* set.
C30_VerdictIffRecord ==
  /\ \A i \in 1..Len(scans) : verdictIffRecord(scans[i])
  /\ resolved =>
       /\ verdictIffRecord(Val(scanData))
       /\ Val(scanData).gsmaData = gsmaData
       /\ Val(scanData).matchConfidence = matchConfidence
       /\ (androidFingerprint # Null /\ gsmaData = Null) =>
            (matchConfidence = 50 /\ Val(scanData).eSIMCompatible = Null)
       /\ (matchConfidence = 0) <=>
            (gsmaData = Null /\ androidFingerprint = Null /\ iphoneFingerprint = Null)

\* A result of the Android fingerprint without a matched record has been
\* stored.
C30_Witness ==
  /\ pc = "idle"
  /\ \E i \in 1..Len(scans) :
       /\ scans[i].gsmaData = Null
       /\ scans[i].matchConfidence = 50
       /\ scans[i].eSIMCompatible = Null
       /\ scans[i].deducedModel # Null

----------------------------------------------------------------------------
\* The scan store

\* The records of a scan file whose scanId differs from the given one, in
\* file order
othersOf(stored, scanId) == SelectSeq(stored, LAMBDA record : record.scanId # scanId)

\* The step is an application of upsertScan on its own.
upsertApplied == call # Null /\ Val(call).fn = "upsertScan" /\ ret = Null /\ ret' # Null

\* C27: upsertScan(scanData) leaves every stored record whose scanId differs
\* from scanData.scanId unchanged and in the same order, also when reading
\* the scan file fails and when writing it fails.
C27_OtherRecordsKept ==
  [][upsertApplied => othersOf(scans', Val(call).scanId) = othersOf(scans, Val(call).scanId)]_vars

\* The same for the calls in which the scan file is read: this holds.
otherRecordsKeptWhenRead ==
  [][(upsertApplied /\ Val(call).readable)
       => othersOf(scans', Val(call).scanId) = othersOf(scans, Val(call).scanId)]_vars

\* The records of a scan file with the given scanId, in file order
recordsOf(stored, scanId) == SelectSeq(stored, LAMBDA record : record.scanId = scanId)

\* No two records of the scan file have the same scanId.
noDuplicateIds == \A i, j \in 1..Len(scans) : i # j => scans[i].scanId # scans[j].scanId

\* The step is the end of a POST /log/:id that wrote its record and
\* answered success.
loggedWithSuccess == pc = "done" /\ pc' = "idle" /\ response' = Some(okResponse(req.id))

\* C26: starting from a scan store without duplicate ids, the store holds at
\* most one record per scanId after any sequence of calls, and the record
\* stored for a scanId is the one passed by the most recent successful
\* upsertScan for that id: a successful POST /log/:id leaves exactly its
\* record for the id, in the place of the one that was there, and no other
\* step changes the record stored for an id.
C26_OneRecordPerId ==
  /\ []noDuplicateIds
  /\ [][\A id \in LeftIds :
          IF loggedWithSuccess /\ req.id = id
          THEN /\ recordsOf(scans', id) = <<Val(scanData)>>
               /\ Len(scans') <= Len(scans) + 1
               /\ recordsOf(scans, id) # << >> => Len(scans') <= Len(scans)
          ELSE recordsOf(scans', id) \in {recordsOf(scans, id), << >>}]_vars

\* After two requests: a POST /log/:id has put its record in the place of the
\* record of the same id, before the record of another id, and the record of
\* a third id has been added behind them.
C26_Witness ==
  /\ pc = "idle"
  /\ served = MaxRequests
  /\ response = Some(okResponse("s2"))
  /\ Len(scans) = 3
  /\ scans[1].scanId = "s1"
  /\ scans[1] # unresolvedScan("s1")
  /\ scans[2] = unresolvedScan("s0")
  /\ scans[3].scanId = "s2"

----------------------------------------------------------------------------
\* The result page

\* The last response is that of GET /result/:id.
resultAnswered == response # Null /\ "view" \in DOMAIN Val(response)

\* The last response is that of a POST /log/:id that answered success.
logAnswered == response # Null /\ "success" \in DOMAIN Val(response) /\ Val(response).success

\* The scan file holds a record of the id.
stored(id) == recordsOf(scans, id) # << >>

\* C28, as stated: GET /result/:id for an id whose log answered success, so
\* that the scan file holds its record, finds the scan and renders the
\* stored verdict; for an id without a record it answers 404.
C28_ResultOfLoggedScan ==
  resultAnswered =>
    IF stored(Val(response).scanId)
    THEN /\ Val(response).status = 200
         /\ Val(response).eSIMCompatible = recordsOf(scans, Val(response).scanId)[1].eSIMCompatible
    ELSE Val(response).status = 404

\* Reading the scan file failed in the handler that ran last.
readFailed == readError \in errors

\* The page of a record, as the claim has it: the record, and its verdict
pageOf(record) ==
  [status |-> 200, view |-> "result", scanId |-> record.scanId, scan |-> record,
   eSIMCompatible |-> record.eSIMCompatible]

\* C28, amended: a POST /log/:id that answers success leaves in the scan
\* file one record of the id, the one of that call, with the verdict the call
\* determined, and until the next such call for the id the record stays as
\* it is or is lost with the file; GET /result/:id answers from the file as
\* it reads it: when the file is read, with the page of the record of the
\* id, carrying the verdict stored in it, and with 404 exactly when the file
\* holds no record of the id; when the file cannot be read, with 404 also
\* for an id with a record.
C28_ResultFromFile ==
  /\ [](logAnswered => stored(Val(response).scanId))
  /\ [](resultAnswered =>
          IF readFailed \/ ~stored(Val(response).scanId)
          THEN Val(response) = notFoundResponse(Val(response).scanId)
          ELSE Val(response) = pageOf(recordsOf(scans, Val(response).scanId)[1]))
  /\ [][\A id \in LeftIds :
          IF loggedWithSuccess /\ req.id = id
          THEN /\ recordsOf(scans', id) = <<Val(scanData)>>
               /\ Val(scanData).eSIMCompatible = finalESIMStatus
          ELSE recordsOf(scans', id) \in {recordsOf(scans, id), << >>}]_vars

\* After two requests the file holds the record of a call, with the verdict
\* true, in the place of the record of the id that an earlier call had left,
\* and the page of the id has been rendered from it.
C28_Witness ==
  /\ resultAnswered
  /\ ~readFailed
  /\ served = MaxRequests
  /\ Len(scans) = 2
  /\ scans[1].scanId = "s1"
  /\ scans[2] = unresolvedScan("s0")
  /\ Val(response) = pageOf(scans[1])
  /\ Val(response).eSIMCompatible = Some(TRUE)

----------------------------------------------------------------------------
\* Requests that arrive together

\* Both requests have been handled and both were answered with success.
bothAnswered ==
  /\ inbox = {}
  /\ pc = "idle"
  /\ DOMAIN outbox # {}
  /\ \A id \in DOMAIN outbox : outbox[id] = Some(okResponse(id))

\* C25: of two requests for different scan ids that arrive together one is
\* handled to its end before the other is taken, and once both have been
\* answered with success the scan file holds a record of each.
C25_BothPresent ==
  /\ pc # "idle" => \A r \in inbox : r.id # req.id
  /\ bothAnswered => \A id \in DOMAIN outbox : stored(id)

\* Both requests have been answered with success and the file holds both
\* records, in the order of their handling.
bothStored ==
  /\ bothAnswered
  /\ Len(scans) = 2
  /\ scans[1].scanId = ArrivalIds[2]
  /\ scans[2].scanId = ArrivalIds[1]

----------------------------------------------------------------------------------------------------------------------------------------------------
\* No state from one call to the next

\* The signals of a request: its body without the id of the scan
signalsOf(r) == [r EXCEPT !.id = ""]

\* What a stored record says of the resolution of its call
resolutionIn(record) ==
  [data |-> record.gsmaData, conf |-> record.matchConfidence,
   deduced |-> record.deducedModel, verdict |-> record.eSIMCompatible]

\* The two requests carried the same signals.
sameSignals == signalsOf(sent[ArrivalIds[1]]) = signalsOf(sent[ArrivalIds[2]])

\* The scan file holds the records of both requests.
bothRecorded == bothAnswered /\ \A id \in DOMAIN outbox : stored(id)

\* C20: a resolution call keeps no cross-call state: for a fixed corpus, the
\* matched record, the confidence, the deduced model and the eSIM verdict of
\* a POST /log call are a function of that call's signals only, whatever
\* calls ran before it, and no resolution call modifies a reference record.
\* With no import running the corpus is the same for both requests: of two
\* requests with the same signals, the one handled second is recorded with
\* the resolution of the one handled first; the result of either request is
\* the one the resolution gives on a handle of its own; and a step of a
\* handler leaves every row in place, and with no import running leaves the
\* database file, the schema and the rows as they are.
C20_NoCrossCallState ==
  /\ []((bothRecorded /\ importPc = "off" /\ sameSignals) =>
          resolutionIn(recordsOf(scans, ArrivalIds[1])[1])
            = resolutionIn(recordsOf(scans, ArrivalIds[2])[1]))
  /\ []((resolved /\ importPc = "off") => resultIs(resolutionOf(req)))
  /\ [][(pc' # pc \/ response' # response) =>
           /\ Len(corpus) <= Len(corpus') /\ SubSeq(corpus', 1, Len(corpus)) = corpus
           /\ importPc = "off" => (corpus' = corpus /\ dbFile' = dbFile /\ schema' = schema)]_vars

\* Two requests with the same signals have been handled one after the other
\* on the same corpus, and both are recorded with the same matched record.
C20_Witness ==
  /\ bothRecorded
  /\ importPc = "off"
  /\ sameSignals
  /\ Len(scans) = 2
  /\ scans[1].gsmaData # Null
  /\ resolutionIn(scans[1]) = resolutionIn(scans[2])

----
\* The import

\* The positions of the bars of a line, and the number of its columns
barsOf(line) == {i \in 1..Len(line) : line[i] = "|"}

columnCount(line) == Cardinality(barsOf(line)) + 1

\* The k-th column of a line, without the blanks around it
columnAt(line, k) ==
  LET before(i) == Cardinality({j \in barsOf(line) : j < i})
      from == IF k = 1 THEN 1 ELSE 1 + CHOOSE i \in barsOf(line) : before(i) = k - 2
      to == IF k = columnCount(line) THEN Len(line)
            ELSE (CHOOSE i \in barsOf(line) : before(i) = k - 1) - 1
  IN trim(SubSeq(line, from, to))

\* The first column of the header with the given name in any case, 0 without one
columnNamed(header, name) ==
  LET named == {k \in 1..columnCount(header) : toLowerCase(columnAt(header, k)) = name}
  IN IF named = {} THEN 0 ELSE CHOOSE k \in named : \A l \in named : k <= l

\* The field of a line in the column of the given place, empty without one
fieldAt(line, k) == IF k = 0 THEN << >> ELSE columnAt(line, k)

\* A data line that is to be stored, given the number of columns of the
\* header and the place of its name column: as many columns as the header,
\* and a name that is not empty and none of the two excluded names.
validLine(line, columns, name) ==
  /\ columnCount(line) = columns
  /\ fieldAt(line, name) \notin {<< >>, Csv.Not_in_Signaling, Csv.Not_Known}

\* The rows of the valid lines among the first n lines of the source, in
\* the order of the lines; the first line is the header.
rowsOfLines(source, n) ==
  LET columns == columnCount(source[1])
      name == columnNamed(source[1], Csv.standardisedfullname)
      euicc == columnNamed(source[1], Csv.euicc)
      valid == SelectSeq(SubSeq(source, 2, n), LAMBDA line : validLine(line, columns, name))
  IN [i \in 1..Len(valid) |->
        [standardised_full_name |-> fieldAt(valid[i], name), euicc |-> fieldAt(valid[i], euicc)]]

\* C21: while the script reads, the rows inserted and those of the batch
\* are the rows of the valid lines read so far, one for each; when it has
\* finished the corpus holds one row for each valid data line of the source
\* and no other row, neither the header nor a row that was there before.
C21_OneRowPerValidLine ==
  /\ importPc = "reading" => corpus \o batch = rowsOfLines(csv, lineNumber)
  /\ importPc = "reading" => Len(batch) < BATCH_SIZE
  /\ importPc = "done" => /\ corpus = rowsOfLines(csv, Len(csv))
                          /\ totalImported = Len(corpus)

\* The script has finished on a source with the padded header:
\* a full batch was inserted while reading
\* and the rest on close.
C21_Witness ==
  /\ importPc = "done"
  /\ csv # << >>
  /\ csv[1] = csvLine(<<Csv.StandardisedFullName, Csv.eUICC_padded>>)
  /\ Len(corpus) = BATCH_SIZE + 1
  /\ Len(batch) = 1
  /\ totalImported = BATCH_SIZE + 1

----------------------------------------------------------------------------
\* The collector

\* The POST has settled with a JSON object that reports success.
reportedSuccess ==
  /\ fetched # Null
  /\ Val(fetched).settled = "fulfilled"
  /\ Val(fetched).isJson
  /\ Val(fetched).value # Null
  /\ "success" \in DOMAIN Val(Val(fetched).value)
  /\ Val(Val(fetched).value).success

\* The URL of the claim for the way the POST settled
urlOfOutcome ==
  IF reportedSuccess /\ "redirectUrl" \in DOMAIN Val(Val(fetched).value)
                     /\ Val(Val(fetched).value).redirectUrl # Null
  THEN Val(Val(fetched).value).redirectUrl
  ELSE DEFAULT_REDIRECT_URL

\* The page is left at most once; once it has been left it was for the
\* redirectUrl of a response that reports success, and for the default URL
\* when that response has none, when the server reports failure, when the
\* body is no JSON object or when the request or the collection throws.
leftOnceForOutcome ==
  /\ [](navigations <= 1)
  /\ [](clientPc = "left" <=> navigations = 1)
  /\ [](clientPc = "left" => href = Some(urlOfOutcome))

\* The promise of fetch has settled.
fetchSettled == fetched # Null

\* The promise of fetch has rejected, or the body of the response has
\* arrived to its end.
exchangeSettled ==
  \/ fetched # Null /\ Val(fetched).settled = "rejected"
  \/ clientPc = "read"

\* C24, as stated: the page is left at most once, for the URL of the
\* outcome, and every run in which the POST to /log/:id settles ends with a
\* navigation.
C24_NavigationOncePostSettles ==
  /\ leftOnceForOutcome
  /\ (fetchSettled ~> clientPc = "left")

\* C24, amended: the page is left at most once, for the URL of the outcome,
\* and every run in which the POST is rejected, or is answered and the body
\* of the answer arrives to its end, ends with a navigation; a run in which
\* the POST is answered and the body never arrives to its end stays on the
\* loading page.
C24_OneNavigation ==
  /\ leftOnceForOutcome
  /\ (exchangeSettled ~> clientPc = "left")

\* The page was left for the result page of the scan after a success.
C24_Witness ==
  /\ clientPc = "left"
  /\ navigations = 1
  /\ fetched = Some(fulfilled(TRUE, Some(okResponse("s1"))))
  /\ href = Some(<<"/result/", "s1">>)
====
